---- MODULE Spec2Model ----
(***************************************************************************)
(* Model of the context-curation and multi-pass orchestration core of      *)
(* lamps-code-review: the AI analyzer (src/core/analyzer/ai/index.ts), the *)
(* response parser (prompts.ts), the OpenRouter client (openrouter.ts),    *)
(* the slice extractor (slices.ts), the context builders (context.ts) and  *)
(* the dependency analyzer (class DependencyAnalyzer).                     *)
(*                                                                         *)
(* Strings are modelled as sequences.  A response text is a sequence of    *)
(* tokens [t, n, v]: t is the token class, n its length in characters and  *)
(* v the JSON value a literal token denotes.  A finding message is a       *)
(* sequence of one-character strings.  A file text is a sequence of lines, *)
(* each line a record of the features the slice extractor reads.           *)
(***************************************************************************)
EXTENDS Integers, Sequences, FiniteSets, TLC

VARIABLES
  envKey,          \* process.env.OPENROUTER_API_KEY is set (non-empty)
  staticFindings,  \* AIAnalyzer.staticFindings, one field per analyzer instance
  pc,              \* per analyze call: where the call is suspended
  actx,            \* per call: the AnalysisContext argument
  passIdx,         \* per call: index in PassOrder of the pass being run
  ddArgs,          \* per call: arguments the current context builder was called with
  reviewContext,   \* per call: ReviewContext the builder returned
  pending,         \* per call: value or error runPass settles with
  allPassResults,  \* per call: local allPassResults
  allFindings,     \* per call: local allFindings
  result,          \* per call: AnalysisResult analyze resolved with
  exchanges,       \* per call: number of chat calls issued, per pass
  log,             \* per call: history of the steps of the call
  fn,              \* pure-function harness: function under evaluation
  input,           \* pure-function harness: its arguments
  output           \* pure-function harness: its return value

orchVars == <<envKey, staticFindings, pc, actx, passIdx, ddArgs, reviewContext,
              pending, allPassResults, allFindings, result, exchanges, log>>
fnVars == <<fn, input, output>>
vars == <<envKey, staticFindings, pc, actx, passIdx, ddArgs, reviewContext,
          pending, allPassResults, allFindings, result, exchanges, log,
          fn, input, output>>

None == [none |-> TRUE]

\* ------------------------------------------------------------------------
\* Sequence helpers
\* ------------------------------------------------------------------------

Max(a, b) == IF a >= b THEN a ELSE b

Min(a, b) == IF a <= b THEN a ELSE b

\* All sequences over S of length 0..n
SeqUpTo(S, n) == UNION {[1..k -> S] : k \in 0..n}

\* the elements of a sequence
ToSet(seq) == {seq[i] : i \in 1..Len(seq)}

\* ------------------------------------------------------------------------
\* JavaScript values read from a parsed response
\* ------------------------------------------------------------------------

Undef == [k |-> "undefined"]

JsNull == [k |-> "null"]

Str(s) == [k |-> "string", s |-> s]

\* a string kept character by character (finding messages)
Txt(cs) == [k |-> "text", c |-> cs]

Num(n) == [k |-> "number", n |-> n]

\* ToBoolean
Truthy(v) ==
  CASE v.k = "string" -> v.s # ""
    [] v.k = "text" -> Len(v.c) > 0
    [] v.k = "number" -> v.n # 0
    [] OTHER -> FALSE

\* a || b
OrElse(a, b) == IF Truthy(a) THEN a ELSE b

IsString(v) == v.k \in {"string", "text"}

\* ------------------------------------------------------------------------
\* Response texts (prompts.ts, parseAIResponse)
\* ------------------------------------------------------------------------

\* characters of one token: whitespace, prose (no brace, backtick, digit or
\* quote), the fence ```, the word json, a lone brace, a JSON literal
Tok(t, n, v) == [t |-> t, n |-> n, v |-> v]

TextLen(txt) ==
  LET RECURSIVE Sum(_)
      Sum(i) == IF i = 0 THEN 0 ELSE txt[i].n + Sum(i - 1)
  IN Sum(Len(txt))

\* String.prototype.slice(0, k)
RECURSIVE SliceText(_, _)
SliceText(txt, k) ==
  IF txt = <<>> \/ k <= 0 THEN <<>>
  ELSE IF Head(txt).n <= k
       THEN <<Head(txt)>> \o SliceText(Tail(txt), k - Head(txt).n)
       ELSE <<[Head(txt) EXCEPT !.n = k]>>

\* String.prototype.trim
RECURSIVE TrimLeft(_)
TrimLeft(txt) ==
  IF txt # <<>> /\ Head(txt).t = "ws" THEN TrimLeft(Tail(txt)) ELSE txt

RECURSIVE TrimRight(_)
TrimRight(txt) ==
  IF txt # <<>> /\ txt[Len(txt)].t = "ws"
  THEN TrimRight(SubSeq(txt, 1, Len(txt) - 1)) ELSE txt

Trim(txt) == TrimRight(TrimLeft(txt))

Positions(txt, classes) == {i \in 1..Len(txt) : txt[i].t \in classes}

SetMin(S) == CHOOSE x \in S : \A y \in S : x <= y

SetMax(S) == CHOOSE x \in S : \A y \in S : x >= y

\* jsonStr.match(/```(?:json)?\s*([\s\S]*?)```/): group 1, or None
FenceMatch(txt) ==
  LET fences == Positions(txt, {"fence"})
  IN IF Cardinality(fences) < 2 THEN None
     ELSE LET open == SetMin(fences)
              close == SetMin(fences \ {open})
              afterTag == IF open + 1 < close /\ txt[open + 1].t = "json"
                          THEN open + 2 ELSE open + 1
              RECURSIVE SkipWs(_)
              SkipWs(i) == IF i < close /\ txt[i].t = "ws" THEN SkipWs(i + 1) ELSE i
          IN [none |-> FALSE, group |-> SubSeq(txt, SkipWs(afterTag), close - 1)]

\* jsonStr.match(/\{[\s\S]*\}/): the match from the first { to the last }, or None
ObjectMatch(txt) ==
  LET opens == Positions(txt, {"lb", "obj"})
      closes == Positions(txt, {"rb", "obj"})
  IN IF opens = {} \/ closes = {} THEN None
     ELSE LET first == SetMin(opens)
              last == SetMax(closes)
          IN IF first < last \/ (first = last /\ txt[first].t = "obj")
             THEN [none |-> FALSE, match |-> SubSeq(txt, first, last)]
             ELSE None

\* JSON.parse: [threw |-> TRUE] for a SyntaxError, else the value
JSONParse(txt) ==
  LET core == Trim(txt)
      inner == SubSeq(core, 2, Len(core) - 1)
  IN CASE Len(core) = 1 /\ core[1].t \in {"obj", "null"} ->
            [threw |-> FALSE, value |-> core[1].v]
       [] Len(core) >= 1 /\ \A i \in 1..Len(core) : core[i].t = "num" ->
            [threw |-> FALSE, value |-> [kind |-> "number"]]
       [] Len(core) >= 2 /\ core[1].t = "lb" /\ core[Len(core)].t = "rb"
          /\ \A i \in 1..Len(inner) : inner[i].t = "ws" ->
            [threw |-> FALSE,
             value |-> [kind |-> "object", findings |-> [isArray |-> FALSE],
                        summary |-> Undef]]
       [] OTHER -> [threw |-> TRUE]

\* String.prototype.toLowerCase on the severity words of the model
ToLowerCase(s) ==
  CASE s = "ERROR" -> "error"
    [] s = "HIGH" -> "high"
    [] s = "Warning" -> "warning"
    [] OTHER -> s

SeverityNames == {"error", "warning", "info", "hint"}

\* severity?.toLowerCase() raises a TypeError when severity is neither
\* nullish nor a string
normalizeSeverityThrows(severity) ==
  severity.k \notin {"undefined", "null"} /\ ~IsString(severity)

normalizeSeverity(severity) ==
  IF ~IsString(severity) THEN "info"
  ELSE LET normalized == ToLowerCase(severity.s)
       IN CASE normalized \in SeverityNames -> normalized
            [] normalized \in {"critical", "high"} -> "error"
            [] normalized = "medium" -> "warning"
            [] normalized = "low" -> "info"
            [] OTHER -> "info"

\* 'No description provided'
NoDescription ==
  <<"N", "o", " ", "d", "e", "s", "c", "r", "i", "p", "t", "i", "o", "n", " ",
    "p", "r", "o", "v", "i", "d", "e", "d">>

\* the callback of parsed.findings.map
NormalizeEntry(f) ==
  [ruleId |-> OrElse(f.ruleId, Str("ai/unknown")),
   severity |-> normalizeSeverity(f.severity),
   file |-> OrElse(f.file, Str("unknown")),
   line |-> IF f.line.k = "number" THEN f.line ELSE Undef,
   message |-> OrElse(f.message, Txt(NoDescription)),
   suggestion |-> f.suggestion]

\* reading f.ruleId of a null entry raises a TypeError
NormalizeEntryThrows(f) == f.isNull \/ normalizeSeverityThrows(f.severity)

FailedPrefix == "Failed to parse AI response"

FailedPrefixColon == "Failed to parse AI response: "

Diagnostic(prefix, excerpt) == [k |-> "diagnostic", prefix |-> prefix, excerpt |-> excerpt]

ExcerptLimit == 200

\* the try block of parseAIResponse: [threw |-> TRUE] when a statement in
\* it raises, else the value it returns
ParseTryBlock(jsonStr) ==
  LET p == JSONParse(jsonStr)
  IN IF p.threw THEN [threw |-> TRUE]
     ELSE IF p.value.kind = "null" THEN [threw |-> TRUE]
     ELSE IF p.value.kind = "number" \/ ~p.value.findings.isArray
          THEN [threw |-> FALSE,
                value |-> [findings |-> <<>>, summary |-> Diagnostic(FailedPrefix, <<>>)]]
     ELSE LET items == p.value.findings.items
          IN IF \E i \in 1..Len(items) : NormalizeEntryThrows(items[i])
             THEN [threw |-> TRUE]
             ELSE [threw |-> FALSE,
                   value |-> [findings |-> [i \in 1..Len(items) |-> NormalizeEntry(items[i])],
                              summary |-> p.value.summary]]

\* the text handed to JSON.parse
ExtractJsonStr(response) ==
  LET trimmed == Trim(response)
      fence == FenceMatch(trimmed)
      unfenced == IF fence.none THEN trimmed ELSE Trim(fence.group)
      object == ObjectMatch(unfenced)
  IN IF object.none THEN unfenced ELSE object.match

parseAIResponseNoCatch(response) ==
  LET body == ParseTryBlock(ExtractJsonStr(response))
  IN IF body.threw
     THEN [raised |-> TRUE, findings |-> <<>>, summary |-> Undef]
     ELSE [raised |-> FALSE, findings |-> body.value.findings,
           summary |-> body.value.summary]

parseAIResponse(response) ==
  LET body == ParseTryBlock(ExtractJsonStr(response))
  IN IF body.threw
     THEN [raised |-> FALSE, findings |-> <<>>,
           summary |-> Diagnostic(FailedPrefixColon, SliceText(response, ExcerptLimit))]
     ELSE [raised |-> FALSE, findings |-> body.value.findings,
           summary |-> body.value.summary]

\* ------------------------------------------------------------------------
\* Finding deduplication (ai/index.ts, deduplicateFindings)
\* ------------------------------------------------------------------------

Digits == {"0", "1", "2", "3", "4", "5", "6", "7", "8", "9"}

LowerLetters == {"a", "b", "c", "d", "e", "f", "g", "h", "i", "j", "k", "l", "m",
                 "n", "o", "p", "q", "r", "s", "t", "u", "v", "w", "x", "y", "z"}

WhitespaceChars == {" ", "\t", "\n"}

\* String.prototype.toLowerCase, one character
LowerChar(c) ==
  CASE c = "A" -> "a" [] c = "I" -> "i" [] c = "L" -> "l" [] c = "N" -> "n"
    [] c = "Q" -> "q" [] c = "S" -> "s" [] OTHER -> c

\* replace(/\s+/g, ' ')
RECURSIVE CollapseWhitespace(_)
CollapseWhitespace(cs) ==
  IF cs = <<>> THEN <<>>
  ELSE IF Head(cs) \in WhitespaceChars
       THEN IF Len(cs) > 1 /\ cs[2] \in WhitespaceChars
            THEN CollapseWhitespace(Tail(cs))
            ELSE <<" ">> \o CollapseWhitespace(Tail(cs))
       ELSE <<Head(cs)>> \o CollapseWhitespace(Tail(cs))

\* replace(/[^a-z0-9 ]/g, '')
KeepAlnumSpace(c) == c \in LowerLetters \cup Digits \cup {" "}

MessageKeyLimit == 50

normalizeMessage(message) ==
  LET lowered == [i \in 1..Len(message) |-> LowerChar(message[i])]
      stripped == SelectSeq(CollapseWhitespace(lowered), KeepAlnumSpace)
  IN SubSeq(stripped, 1, Min(MessageKeyLimit, Len(stripped)))

severityOrder(sev) ==
  CASE sev = "error" -> 4 [] sev = "warning" -> 3 [] sev = "info" -> 2 [] sev = "hint" -> 1

\* finding.line || 0
LineOrZero(finding) == IF Truthy(finding.line) THEN finding.line.n ELSE 0

\* `${file}:${line || 0}:${normalizeMessage(message)}`. The normalized message
\* holds no colon and neither does the number, so the string determines the
\* three parts: it is kept as the triple.
DedupKey(finding) ==
  <<finding.file.s, LineOrZero(finding), normalizeMessage(finding.message.c)>>

\* message.toLowerCase() raises a TypeError when message is not a string
DedupKeyThrows(finding) == finding.message.k # "text"

IndexOfKey(seen, key) ==
  LET hits == {i \in 1..Len(seen) : seen[i].key = key}
  IN IF hits = {} THEN 0 ELSE SetMin(hits)

ReplacesStoredNever(finding, existing) == FALSE

ReplacesStoredGE(finding, existing) ==
  severityOrder(finding.severity) >= severityOrder(existing.severity)

\* the test that lets a later finding take the place of the stored one
ReplacesStored(finding, existing) ==
  severityOrder(finding.severity) > severityOrder(existing.severity)

\* one iteration of the loop over findings; seen is the Map in insertion order
DedupStep(seen, finding) ==
  LET key == DedupKey(finding)
      at == IndexOfKey(seen, key)
  IN IF at = 0 THEN Append(seen, [key |-> key, value |-> finding])
     ELSE IF ReplacesStored(finding, seen[at].value)
          THEN [seen EXCEPT ![at].value = finding]
          ELSE seen

RECURSIVE DedupLoop(_, _)
DedupLoop(seen, findings) ==
  IF findings = <<>> THEN seen
  ELSE DedupLoop(DedupStep(seen, Head(findings)), Tail(findings))

\* [threw |-> TRUE] when normalizeMessage raises, else Array.from(seen.values())
deduplicateFindings(findings) ==
  IF \E i \in 1..Len(findings) : DedupKeyThrows(findings[i])
  THEN [threw |-> TRUE, value |-> <<>>]
  ELSE LET seen == DedupLoop(<<>>, findings)
       IN [threw |-> FALSE, value |-> [i \in 1..Len(seen) |-> seen[i].value]]

\* ------------------------------------------------------------------------
\* OpenRouter client (openrouter.ts)
\* ------------------------------------------------------------------------

DefaultStatusMessage == "OpenRouter API error: 500"

\* callOpenRouter on one HTTP exchange: [threw |-> TRUE, message] when it
\* raises, else the content of the first choice
callOpenRouter(http) ==
  CASE http.step = "fetch-rejects" -> [threw |-> TRUE, message |-> "fetch failed"]
    [] http.step = "not-ok" ->
         [threw |-> TRUE,
          message |-> CASE http.body = "json-error-message" -> "Rate limit exceeded"
                        [] http.body = "json-other" -> DefaultStatusMessage
                        [] http.body = "plain-text" -> "Bad Gateway"
                        [] http.body = "empty" -> DefaultStatusMessage]
    [] http.step = "ok" ->
         CASE http.body = "not-json" -> [threw |-> TRUE, message |-> "Unexpected token"]
           [] http.body = "error-payload" -> [threw |-> TRUE, message |-> "Provider returned error"]
           [] http.body = "no-choices" -> [threw |-> TRUE, message |-> "No response from AI model"]
           [] http.body = "choices" -> [threw |-> FALSE, content |-> http.content]

\* chat(systemPrompt, userPrompt, config, apiKey)
chat(http) == callOpenRouter(http)

\* ------------------------------------------------------------------------
\* AIAnalyzer (ai/index.ts)
\* ------------------------------------------------------------------------

AllCalls == {"c1", "c2"}

PassOrderSwapped == <<"architecture", "security", "deep-dive">>

\* the order of the runPass calls in analyze
PassOrder == <<"architecture", "deep-dive", "security">>

PassTypes == {"architecture", "deep-dive", "security"}

hasOpenRouterKeyAlways(key) == TRUE

\* !!process.env.OPENROUTER_API_KEY
hasOpenRouterKey(key) == key

\* BaseAnalyzer.createResult, without the duration
createResult(findings, metadata) ==
  [analyzerName |-> "ai", phase |-> "ai", findings |-> findings, metadata |-> metadata]

NoApiKeyFinding ==
  [ruleId |-> Str("ai/no-api-key"), severity |-> "info", file |-> Str(""),
   message |-> Str("AI analysis skipped: OPENROUTER_API_KEY environment variable not set")]

ErrorFindingSilent(errorMessage) == <<>>

\* the findings of the result built by the catch block of analyze
ErrorFinding(errorMessage) ==
  <<[ruleId |-> Str("ai/error"), severity |-> "warning", file |-> Str(""),
     message |-> [k |-> "failure", prefix |-> "AI analysis failed: ", error |-> errorMessage]]>>

AnalyzeCatchKeepsPasses(errorMessage) ==
  createResult(ErrorFinding(errorMessage), [error |-> errorMessage, passResults |-> <<>>])

\* the catch block of analyze
AnalyzeCatch(errorMessage) ==
  createResult(ErrorFinding(errorMessage), [error |-> errorMessage])

\* getStaticFindings: findings of the result named 'static', else []
getStaticFindings(context) ==
  IF context.previousResults.none THEN <<>> ELSE context.previousResults.static

ArchRuleIds == {"ai/arch-structure", "ai/arch-config"}

\* f.ruleId.startsWith('ai/arch') over the rule ids of the model
StartsWithAiArch(ruleId) == ruleId.s \in ArchRuleIds

\* previousFindings.filter((f) => f.ruleId.startsWith('ai/arch')) raises a
\* TypeError when a rule id is not a string
ArchFilterThrows(previousFindings) ==
  \E i \in 1..Len(previousFindings) : ~IsString(previousFindings[i].ruleId)

ArchFilter(previousFindings) ==
  LET IsArch(f) == StartsWithAiArch(f.ruleId)
  IN SelectSeq(previousFindings, IsArch)

\* the arguments runPass hands to the context builder of the pass
BuilderArgs(passType, instanceStatic, previousFindings) ==
  IF passType = "deep-dive"
  THEN [staticFindings |-> instanceStatic,
        architectureFindings |-> ArchFilter(previousFindings)]
  ELSE [staticFindings |-> <<>>, architectureFindings |-> <<>>]

SkipsExchangeNever(rc) == FALSE

\* reviewContext.files.length === 0
SkipsExchange(rc) == rc.files = 0

NoFilesSummary(passType) == [k |-> "no-files", prefix |-> "No relevant files for ", pass |-> passType]

\* runPass after the response arrived: parse and convert the findings
PassResultOf(passType, response) ==
  LET parsed == parseAIResponse(response)
  IN [pass |-> passType, findings |-> parsed.findings, summary |-> parsed.summary]

\* ------------------------------------------------------------------------
\* Inputs of the analyzer: contexts, builder results, HTTP exchanges
\* ------------------------------------------------------------------------

Entry(ruleId, severity, file, line, message) ==
  [isNull |-> FALSE, ruleId |-> ruleId, severity |-> severity, file |-> file,
   line |-> line, message |-> message, suggestion |-> Undef]

MsgSqlInjection == <<"S", "Q", "L", " ", "i", "n", "j", "e", "c", "t", "i", "o", "n">>

MsgSqlInjectionBang ==
  <<"s", "q", "l", " ", "i", "n", "j", "e", "c", "t", "i", "o", "n", "!", "!">>

MsgSqlInjectionTab == <<"s", "q", "l", "\t", " ", "i", "n", "j", "e", "c", "t", "i", "o", "n">>

ArchEntry == Entry(Str("ai/arch-structure"), Str("warning"), Str("a.ts"), Num(5), Txt(MsgSqlInjection))

DeepEntry == Entry(Str("ai/bug-logic"), Str("HIGH"), Str("a.ts"), Num(5), Txt(MsgSqlInjectionBang))

SecEntry == Entry(Str("ai/security-injection"), Str("error"), Str("a.ts"), Num(5), Txt(MsgSqlInjectionTab))

BareEntry == Entry(Undef, Undef, Str("b.ts"), Undef, Undef)

NumericRuleEntry == Entry(Num(7), Str("low"), Str("b.ts"), Num(1), Txt(MsgSqlInjection))

NumericMessageEntry == Entry(Str("ai/bug-null"), Str("medium"), Str("b.ts"), Num(1), Num(7))

ObjectValue(items, summary) ==
  [kind |-> "object", findings |-> [isArray |-> TRUE, items |-> items], summary |-> summary]

ObjTok(value, n) == Tok("obj", n, value)

Prose(n) == Tok("x", n, None)

Ws == Tok("ws", 1, None)

Fence == Tok("fence", 3, None)

JsonTag == Tok("json", 4, None)

PassEntry(passType) ==
  CASE passType = "architecture" -> ArchEntry
    [] passType = "deep-dive" -> DeepEntry
    [] passType = "security" -> SecEntry

\* response texts the provider returns for a pass
ResponsesFor(passType) ==
  {<<ObjTok(ObjectValue(<<PassEntry(passType)>>, Str("ok")), 120)>>,
   <<Prose(12), Fence, JsonTag, Ws,
     ObjTok(ObjectValue(<<PassEntry(passType), BareEntry>>, Str("two")), 200), Ws, Fence>>,
   <<Prose(30)>>}
  \cup (IF passType = "architecture"
        THEN {<<ObjTok(ObjectValue(<<NumericRuleEntry>>, Str("odd")), 110)>>}
        ELSE {<<ObjTok(ObjectValue(<<NumericMessageEntry>>, Str("odd")), 110)>>})

\* HTTP exchanges of a pass
HttpExchanges(passType) ==
  {[step |-> "fetch-rejects", body |-> "", content |-> <<>>]}
  \cup {[step |-> "not-ok", body |-> b, content |-> <<>>] :
          b \in {"json-error-message", "json-other", "plain-text", "empty"}}
  \cup {[step |-> "ok", body |-> b, content |-> <<>>] :
          b \in {"not-json", "error-payload", "no-choices"}}
  \cup {[step |-> "ok", body |-> "choices", content |-> c] : c \in ResponsesFor(passType)}

StaticFindingA ==
  [ruleId |-> Str("static/large-file"), severity |-> "warning", file |-> Str("a.ts"),
   line |-> Undef, message |-> Txt(MsgSqlInjection), suggestion |-> Undef]

StaticFindingB ==
  [ruleId |-> Str("static/misplaced-test"), severity |-> "hint", file |-> Str("b.ts"),
   line |-> Undef, message |-> Txt(MsgSqlInjection), suggestion |-> Undef]

\* AnalysisContext arguments: the number of scanned files and _previousResults
AnalysisContexts ==
  {[files |-> n, previousResults |-> pr] :
     n \in {0, 3},
     pr \in {None,
             [none |-> FALSE, static |-> <<>>],
             [none |-> FALSE, static |-> <<StaticFindingA>>]}}

\* what a context builder can return for its arguments: the number of
\* ContextFiles it admitted, and the arguments it was built from
ReviewContexts(passType, args) ==
  {[pass |-> passType, files |-> n, staticFindings |-> args.staticFindings,
    architectureFindings |-> args.architectureFindings] : n \in {0, 2}}

\* ------------------------------------------------------------------------
\* AIAnalyzer.analyze and runPass as steps between their await points
\* ------------------------------------------------------------------------

Idle == [c \in AllCalls |-> "idle"]

NoArgs == [staticFindings |-> <<>>, architectureFindings |-> <<>>]

InitCalls ==
  /\ staticFindings = <<>>
  /\ pc = Idle
  /\ actx = [c \in AllCalls |-> None]
  /\ passIdx = [c \in AllCalls |-> 0]
  /\ ddArgs = [c \in AllCalls |-> NoArgs]
  /\ reviewContext = [c \in AllCalls |-> [p \in PassTypes |-> None]]
  /\ pending = [c \in AllCalls |-> None]
  /\ allPassResults = [c \in AllCalls |-> <<>>]
  /\ allFindings = [c \in AllCalls |-> <<>>]
  /\ result = [c \in AllCalls |-> None]
  /\ exchanges = [c \in AllCalls |-> [p \in PassTypes |-> 0]]
  /\ log = [c \in AllCalls |-> <<>>]

InitFnIdle ==
  /\ fn = "none"
  /\ input = None
  /\ output = None

Init == envKey \in BOOLEAN /\ InitCalls /\ InitFnIdle

\* analyze calls runPass(PassOrder[idx], context, graph, allFindings): runPass
\* evaluates the builder's arguments and suspends in the builder, or raises
EnterPass(c, idx, instanceStatic, previousFindings, logSoFar) ==
  LET passType == PassOrder[idx]
  IN /\ passIdx' = [passIdx EXCEPT ![c] = idx]
     /\ IF passType = "deep-dive" /\ ArchFilterThrows(previousFindings)
        THEN /\ pending' = [pending EXCEPT ![c] =
                              [threw |-> TRUE, message |-> "f.ruleId.startsWith is not a function"]]
             /\ pc' = [pc EXCEPT ![c] = "settled"]
             /\ ddArgs' = ddArgs
             /\ log' = [log EXCEPT ![c] = Append(logSoFar, <<"threw", passType>>)]
        ELSE /\ pending' = [pending EXCEPT ![c] = None]
             /\ pc' = [pc EXCEPT ![c] = "building"]
             /\ ddArgs' = [ddArgs EXCEPT ![c] =
                             BuilderArgs(passType, instanceStatic, previousFindings)]
             /\ log' = [log EXCEPT ![c] = Append(logSoFar, <<"build", passType>>)]

\* analyze(context) up to its first await
Analyze(c, context) ==
  /\ pc[c] = "idle"
  /\ actx' = [actx EXCEPT ![c] = context]
  /\ UNCHANGED <<envKey, reviewContext, exchanges, fn, input, output>>
  /\ IF ~hasOpenRouterKey(envKey)
     THEN /\ result' = [result EXCEPT ![c] =
                          createResult(<<NoApiKeyFinding>>,
                                       [skipped |-> TRUE, reason |-> "no-api-key"])]
          /\ pc' = [pc EXCEPT ![c] = "done"]
          /\ UNCHANGED <<staticFindings, passIdx, ddArgs, pending, allPassResults,
                         allFindings, log>>
     ELSE IF context.files = 0
     THEN /\ result' = [result EXCEPT ![c] =
                          createResult(<<>>, [skipped |-> TRUE, reason |-> "no-files"])]
          /\ pc' = [pc EXCEPT ![c] = "done"]
          /\ UNCHANGED <<staticFindings, passIdx, ddArgs, pending, allPassResults,
                         allFindings, log>>
     ELSE /\ staticFindings' = getStaticFindings(context)
          /\ allPassResults' = [allPassResults EXCEPT ![c] = <<>>]
          /\ allFindings' = [allFindings EXCEPT ![c] = <<>>]
          /\ EnterPass(c, 1, getStaticFindings(context), <<>>, log[c])
          /\ UNCHANGED result

\* the context builder of the current pass resolves with rc; runPass skips
\* the exchange or reads the key and issues the chat request
ContextBuilt(c, rc) ==
  LET passType == PassOrder[passIdx[c]]
  IN /\ pc[c] = "building"
     /\ rc \in ReviewContexts(passType, ddArgs[c])
     /\ reviewContext' = [reviewContext EXCEPT ![c][passType] = rc]
     /\ UNCHANGED <<envKey, staticFindings, actx, passIdx, ddArgs, allPassResults,
                    allFindings, result, fn, input, output>>
     /\ IF SkipsExchange(rc)
        THEN /\ pending' = [pending EXCEPT ![c] =
                              [threw |-> FALSE,
                               value |-> [pass |-> passType, findings |-> <<>>,
                                          summary |-> NoFilesSummary(passType)]]]
             /\ pc' = [pc EXCEPT ![c] = "settled"]
             /\ log' = [log EXCEPT ![c] = Append(@, <<"context", passType>>)]
             /\ UNCHANGED exchanges
        ELSE IF ~envKey
        THEN /\ pending' = [pending EXCEPT ![c] =
                              [threw |-> TRUE,
                               message |-> "OPENROUTER_API_KEY environment variable is not set"]]
             /\ pc' = [pc EXCEPT ![c] = "settled"]
             /\ log' = [log EXCEPT ![c] = Append(@, <<"context", passType>>)]
             /\ UNCHANGED exchanges
        ELSE /\ exchanges' = [exchanges EXCEPT ![c][passType] = @ + 1]
             /\ pc' = [pc EXCEPT ![c] = "awaitingChat"]
             /\ pending' = pending
             /\ log' = [log EXCEPT ![c] =
                          Append(Append(@, <<"context", passType>>), <<"chat", passType>>)]

\* the chat request of the current pass settles: runPass raises, or parses
\* the response and returns the pass result
ChatSettles(c, http) ==
  LET passType == PassOrder[passIdx[c]]
      reply == chat(http)
      parsed == parseAIResponse(reply.content)
  IN /\ pc[c] = "awaitingChat"
     /\ http \in HttpExchanges(passType)
     /\ pc' = [pc EXCEPT ![c] = "settled"]
     /\ UNCHANGED <<envKey, staticFindings, actx, passIdx, ddArgs, reviewContext,
                    allPassResults, allFindings, result, exchanges, fn, input, output>>
     /\ IF reply.threw
        THEN /\ pending' = [pending EXCEPT ![c] = [threw |-> TRUE, message |-> reply.message]]
             /\ log' = [log EXCEPT ![c] = Append(@, <<"failed", passType>>)]
        ELSE IF parsed.raised
        THEN /\ pending' = [pending EXCEPT ![c] =
                              [threw |-> TRUE, message |-> "Cannot read properties of null"]]
             /\ log' = [log EXCEPT ![c] = Append(@, <<"response", passType>>)]
        ELSE /\ pending' = [pending EXCEPT ![c] =
                              [threw |-> FALSE,
                               value |-> [pass |-> passType, findings |-> parsed.findings,
                                          summary |-> parsed.summary]]]
             /\ log' = [log EXCEPT ![c] = Append(@, <<"response", passType>>)]

\* `**${r.pass}**: ${r.summary}` of every pass result, joined
CombinedSummary(passResults) ==
  [i \in 1..Len(passResults) |-> <<passResults[i].pass, passResults[i].summary>>]

\* analyze resumes after await runPass: the catch block, or push the result,
\* then the next pass or deduplication and the final result
PassSettled(c) ==
  /\ pc[c] = "settled"
  /\ UNCHANGED <<envKey, staticFindings, actx, reviewContext, exchanges, fn, input, output>>
  /\ IF pending[c].threw
     THEN /\ result' = [result EXCEPT ![c] = AnalyzeCatch(pending[c].message)]
          /\ pc' = [pc EXCEPT ![c] = "done"]
          /\ log' = [log EXCEPT ![c] = Append(@, <<"catch", PassOrder[passIdx[c]]>>)]
          /\ UNCHANGED <<passIdx, ddArgs, pending, allPassResults, allFindings>>
     ELSE LET passResult == pending[c].value
              passResults == Append(allPassResults[c], passResult)
              findings == allFindings[c] \o passResult.findings
              appended == Append(log[c], <<"append", passResult.pass>>)
              deduped == deduplicateFindings(findings)
          IN /\ allPassResults' = [allPassResults EXCEPT ![c] = passResults]
             /\ allFindings' = [allFindings EXCEPT ![c] = findings]
             /\ IF passIdx[c] < Len(PassOrder)
                THEN /\ EnterPass(c, passIdx[c] + 1, staticFindings, findings, appended)
                     /\ UNCHANGED result
                ELSE /\ pc' = [pc EXCEPT ![c] = "done"]
                     /\ UNCHANGED <<passIdx, ddArgs, pending>>
                     /\ IF deduped.threw
                        THEN /\ result' = [result EXCEPT ![c] =
                                             AnalyzeCatch("message.toLowerCase is not a function")]
                             /\ log' = [log EXCEPT ![c] = Append(appended, <<"catch", "dedup">>)]
                        ELSE /\ result' = [result EXCEPT ![c] =
                                             createResult(deduped.value,
                                               [summary |-> CombinedSummary(passResults),
                                                passResults |-> passResults,
                                                filesAnalyzed |-> actx[c].files,
                                                multiPass |-> TRUE])]
                             /\ log' = [log EXCEPT ![c] = Append(appended, <<"return", "analyze">>)]

Calls == {"c1"}

Next ==
  \E c \in Calls :
    \/ \E context \in AnalysisContexts : Analyze(c, context)
    \/ \E p \in PassTypes : \E rc \in ReviewContexts(p, ddArgs[c]) : ContextBuilt(c, rc)
    \/ \E p \in PassTypes : \E http \in HttpExchanges(p) : ChatSettles(c, http)
    \/ PassSettled(c)

Spec == Init /\ [][Next]_vars

\* ------------------------------------------------------------------------
\* Properties of analyze
\* ------------------------------------------------------------------------

\* positions of an event in the history of a call
EventAt(c, kind, passType) ==
  {i \in 1..Len(log[c]) : log[c][i] = <<kind, passType>>}

Succeeded(c) == pc[c] = "done" /\ "multiPass" \in DOMAIN result[c].metadata

BuildEvents(c) ==
  LET IsBuild(e) == e[1] = "build"
  IN SelectSeq(log[c], IsBuild)

IsPrefix(s, t) == Len(s) <= Len(t) /\ \A i \in 1..Len(s) : s[i] = t[i]

FixedOrder == <<"architecture", "deep-dive", "security">>

\* pass b starts building only after pass a's exchange returned and its
\* findings were appended
BuiltAfter(c, a, b) ==
  \A j \in EventAt(c, "build", b) :
    /\ \E i \in EventAt(c, "append", a) : i < j
    /\ \A x \in EventAt(c, "chat", a) :
         \E r \in EventAt(c, "response", a) :
           x < r /\ \E i \in EventAt(c, "append", a) : r < i /\ i < j

\* C1: the passes run in the order architecture, deep-dive, security, one
\* after another: the context of the next pass starts building only after
\* the exchange of the previous pass returned and its findings were appended,
\* and a successful run holds exactly the three pass results in that order.
C1_SequentialPasses ==
  \A c \in AllCalls :
    /\ IsPrefix([i \in 1..Len(BuildEvents(c)) |-> BuildEvents(c)[i][2]], FixedOrder)
    /\ BuiltAfter(c, "architecture", "deep-dive")
    /\ BuiltAfter(c, "deep-dive", "security")
    /\ pc[c] \in {"building", "awaitingChat"} =>
         /\ Len(allPassResults[c]) = passIdx[c] - 1
         /\ FixedOrder[passIdx[c]] = log[c][Len(log[c])][2]
    /\ Succeeded(c) =>
         [i \in 1..Len(result[c].metadata.passResults) |->
            result[c].metadata.passResults[i].pass] = FixedOrder

C1_Witness ==
  /\ Succeeded("c1")
  /\ \A p \in PassTypes : exchanges["c1"][p] = 1
  /\ Len(allFindings["c1"]) >= 3

IsErrorFinding(f, errorMessage) ==
  /\ f.ruleId = Str("ai/error")
  /\ f.severity = "warning"
  /\ f.message.error = errorMessage

\* C2: when the exchange of a pass fails, analyze still resolves: its result
\* holds a warning finding ai/error carrying the error message, and after the
\* failure the run builds no context and performs no exchange.
C2_ProviderErrorAborts ==
  \A c \in AllCalls : \A p \in PassTypes :
    \A i \in EventAt(c, "failed", p) :
      /\ pc[c] \in {"settled", "done"}
      /\ \A j \in (i + 1)..Len(log[c]) : log[c][j] = <<"catch", p>>
      /\ exchanges[c][p] = 1
      /\ pc[c] = "done" =>
           /\ result[c] # None
           /\ \E k \in 1..Len(result[c].findings) :
                IsErrorFinding(result[c].findings[k], pending[c].message)

C2_Witness ==
  /\ pc["c1"] = "done"
  /\ EventAt("c1", "failed", "deep-dive") # {}
  /\ EventAt("c1", "response", "architecture") # {}
  /\ pending["c1"].message = "Rate limit exceeded"

\* C3: without the credential analyze builds no context, runs no pass and
\* performs no exchange; it resolves with exactly one finding, of severity
\* info and rule id ai/no-api-key.
C3_MissingKeySkips ==
  \A c \in AllCalls :
    ~envKey =>
      /\ pc[c] \in {"idle", "done"}
      /\ log[c] = <<>>
      /\ \A p \in PassTypes : exchanges[c][p] = 0 /\ reviewContext[c][p] = None
      /\ pc[c] = "done" =>
           /\ Len(result[c].findings) = 1
           /\ result[c].findings[1].severity = "info"
           /\ result[c].findings[1].ruleId = Str("ai/no-api-key")

C3_Witness == ~envKey /\ pc["c1"] = "done" /\ actx["c1"].files > 0

PassResultsOf(c, p) ==
  {i \in 1..Len(allPassResults[c]) : allPassResults[c][i].pass = p}

TotalExchanges(c) ==
  exchanges[c]["architecture"] + exchanges[c]["deep-dive"] + exchanges[c]["security"]

\* C4: a pass performs no exchange when its ReviewContext has zero files (it
\* then returns no findings and the summary 'No relevant files for <pass>
\* review') and exactly one otherwise, also after a failure; a run performs
\* at most three exchanges.
C4_ExchangesPerPass ==
  \A c \in AllCalls :
    /\ TotalExchanges(c) <= 3
    /\ \A p \in PassTypes :
         IF reviewContext[c][p] = None THEN exchanges[c][p] = 0
         ELSE IF reviewContext[c][p].files = 0
         THEN /\ exchanges[c][p] = 0
              /\ \A i \in PassResultsOf(c, p) :
                   /\ allPassResults[c][i].findings = <<>>
                   /\ allPassResults[c][i].summary =
                        [k |-> "no-files", prefix |-> "No relevant files for ", pass |-> p]
         ELSE exchanges[c][p] = 1

C4_Witness ==
  /\ pc["c1"] = "done"
  /\ reviewContext["c1"]["architecture"] # None
  /\ reviewContext["c1"]["architecture"].files = 0
  /\ PassResultsOf("c1", "architecture") # {}
  /\ exchanges["c1"]["deep-dive"] = 1
  /\ EventAt("c1", "failed", "security") # {}

\* C27: when the exchange of the deep-dive or the security pass fails, the
\* result of analyze holds exactly one finding (ai/error, warning, empty
\* file); the findings and summaries of the completed passes are not in it
\* and its metadata holds no passResults.
C27_LateFailureDiscards ==
  \A c \in AllCalls : \A p \in {"deep-dive", "security"} :
    (EventAt(c, "failed", p) # {} /\ pc[c] = "done") =>
      /\ Len(result[c].findings) = 1
      /\ result[c].findings[1].ruleId = Str("ai/error")
      /\ result[c].findings[1].severity = "warning"
      /\ result[c].findings[1].file = Str("")
      /\ DOMAIN result[c].metadata = {"error"}
      /\ Len(allPassResults[c]) = (IF p = "deep-dive" THEN 1 ELSE 2)

\* the security exchange fails after two passes returned findings
C27_Witness ==
  /\ pc["c1"] = "done"
  /\ EventAt("c1", "failed", "security") # {}
  /\ Len(allPassResults["c1"]) = 2
  /\ Len(allPassResults["c1"][1].findings) > 0
  /\ Len(allPassResults["c1"][2].findings) > 0
  /\ Len(allFindings["c1"]) >= 2
  /\ Len(result["c1"].findings) = 1

\* ------------------------------------------------------------------------
\* Two analyze calls on one AIAnalyzer instance
\* ------------------------------------------------------------------------

\* the contexts of two pipeline runs: their static phases found different
\* findings
InterleavedContexts ==
  {[files |-> 3, previousResults |-> [none |-> FALSE, static |-> found]] :
     found \in {<<StaticFindingA>>, <<StaticFindingB>>}}

\* exchanges that return the findings of the pass, or fail
InterleavedExchanges(passType) ==
  {[step |-> "ok", body |-> "choices",
    content |-> <<ObjTok(ObjectValue(<<PassEntry(passType)>>, Str("ok")), 120)>>],
   [step |-> "fetch-rejects", body |-> "", content |-> <<>>]}

InitInterleaved == envKey = TRUE /\ InitCalls /\ InitFnIdle

\* the steps of the calls, taken in any order between their await points
NextInterleaved ==
  \E c \in AllCalls :
    \/ \E context \in InterleavedContexts : Analyze(c, context)
    \/ \E p \in PassTypes : \E rc \in {r \in ReviewContexts(p, ddArgs[c]) : r.files > 0} :
         ContextBuilt(c, rc)
    \/ \E p \in PassTypes : \E http \in InterleavedExchanges(p) : ChatSettles(c, http)
    \/ PassSettled(c)

SpecInterleaved == InitInterleaved /\ [][NextInterleaved]_vars

\* C28: the deep-dive pass of a call is built from the static findings of the
\* context of that call, also when another analyze call on the same instance
\* runs between its await points.
C28_OwnStaticFindings ==
  \A c \in AllCalls :
    /\ (pc[c] \in {"building", "awaitingChat"} /\ PassOrder[passIdx[c]] = "deep-dive") =>
         ddArgs[c].staticFindings = getStaticFindings(actx[c])
    /\ reviewContext[c]["deep-dive"] # None =>
         reviewContext[c]["deep-dive"].staticFindings = getStaticFindings(actx[c])

\* ------------------------------------------------------------------------
\* AnalyzerPipeline.run racing the AI analyzer against its timer
\* ------------------------------------------------------------------------

\* run before runAnalyzer has returned or raised: allResults and errors empty
PipelineStart == [settled |-> FALSE, errors |-> <<>>, allResults |-> <<>>]

\* new Error(`Analyzer "${analyzerName}" timed out`), as pushed to errors
TimedOutError(analyzerName) == <<analyzerName, "Analyzer timed out">>

InitPipeline ==
  /\ envKey \in BOOLEAN
  /\ InitCalls
  /\ fn = "run"
  /\ input = None
  /\ output = PipelineStart

\* the setTimeout callback rejects while analyze is suspended: Promise.race
\* rejects, run's catch records the error and the phase ends without a result
\* of the analyzer; the promise of analyze is left as it is
TimerFires(c) ==
  /\ fn = "run"
  /\ ~output.settled
  /\ pc[c] \notin {"idle", "done"}
  /\ output' = [settled |-> TRUE, errors |-> <<TimedOutError("ai")>>, allResults |-> <<>>]
  /\ UNCHANGED <<envKey, staticFindings, pc, actx, passIdx, ddArgs, reviewContext,
                 pending, allPassResults, allFindings, result, exchanges, log, fn, input>>

\* the promise of analyze resolves first: runAnalyzer returns its result and
\* run pushes it to the results of the phase
AnalyzerWins(c) ==
  /\ fn = "run"
  /\ ~output.settled
  /\ pc[c] = "done"
  /\ output' = [settled |-> TRUE, errors |-> <<>>, allResults |-> <<result[c]>>]
  /\ UNCHANGED <<envKey, staticFindings, pc, actx, passIdx, ddArgs, reviewContext,
                 pending, allPassResults, allFindings, result, exchanges, log, fn, input>>

NextPipeline ==
  \E c \in Calls :
    \/ \E context \in AnalysisContexts : Analyze(c, context)
    \/ \E p \in PassTypes : \E rc \in ReviewContexts(p, ddArgs[c]) : ContextBuilt(c, rc)
    \/ \E p \in PassTypes : \E http \in HttpExchanges(p) : ChatSettles(c, http)
    \/ PassSettled(c)
    \/ TimerFires(c)
    \/ AnalyzerWins(c)

SpecPipeline == InitPipeline /\ [][NextPipeline]_vars

\* the analyzer is reported as timed out and has no result in the pipeline
TimedOut ==
  /\ output.settled
  /\ TimedOutError("ai") \in ToSet(output.errors)
  /\ output.allResults = <<>>

\* C30: once the timer has won the race against the AI analyzer, the analyzer
\* enters no further pass and issues no further chat request.
C30_CancellationEffective ==
  [][TimedOut => (passIdx' = passIdx /\ exchanges' = exchanges)]_vars

\* ------------------------------------------------------------------------
\* parseAIResponse applied to bounded response texts
\* ------------------------------------------------------------------------

MaxTextLen == 4

NumericSeverityEntry == Entry(Str("ai/bug-logic"), Num(3), Str("a.ts"), Num(5), Txt(MsgSqlInjection))

\* the tokens response texts are built from
ResponseTokens ==
  {Ws, Prose(150), Fence, JsonTag,
   Tok("lb", 1, None), Tok("rb", 1, None),
   Tok("null", 4, [kind |-> "null"]), Tok("num", 2, [kind |-> "number"]),
   ObjTok(ObjectValue(<<DeepEntry, BareEntry>>, Str("ok")), 120),
   ObjTok([kind |-> "object", findings |-> [isArray |-> FALSE], summary |-> Str("none")], 30),
   ObjTok(ObjectValue(<<ArchEntry, [isNull |-> TRUE]>>, Str("hole")), 90),
   ObjTok(ObjectValue(<<NumericSeverityEntry>>, Str("odd")), 80)}

ResponseTexts == SeqUpTo(ResponseTokens, MaxTextLen)

InitParse ==
  /\ envKey = TRUE
  /\ InitCalls
  /\ fn = "parseAIResponse"
  /\ input \in ResponseTexts
  /\ output = None

ApplyParse ==
  /\ fn = "parseAIResponse"
  /\ output = None
  /\ output' = parseAIResponse(input)
  /\ UNCHANGED <<envKey, staticFindings, pc, actx, passIdx, ddArgs, reviewContext,
                 pending, allPassResults, allFindings, result, exchanges, log, fn, input>>

NextParse == ApplyParse

SpecParse == InitParse /\ [][NextParse]_vars

ParsedHere == fn = "parseAIResponse" /\ output # None

\* the text holds a JSON value with a findings array, as the code extracts it
HoldsFindingsArray(txt) ==
  LET parsed == JSONParse(ExtractJsonStr(txt))
  IN /\ ~parsed.threw
     /\ parsed.value.kind = "object"
     /\ parsed.value.findings.isArray

\* C5: parseAIResponse raises for no response text; when the text holds no
\* extractable valid JSON object, or the value has no findings array, it
\* returns no findings and a diagnostic summary: the fixed prefix followed by
\* at most the first 200 characters of the response.
C5_ParseNeverRaises ==
  ParsedHere =>
    /\ output.raised = FALSE
    /\ ~HoldsFindingsArray(input) =>
         /\ output.findings = <<>>
         /\ output.summary.k = "diagnostic"
         /\ output.summary.prefix \in {"Failed to parse AI response",
                                       "Failed to parse AI response: "}
         /\ TextLen(output.summary.excerpt) <= 200
         /\ IsPrefix([i \in 1..Len(output.summary.excerpt) |-> output.summary.excerpt[i].t],
                     [i \in 1..Len(input) |-> input[i].t])
         /\ TextLen(output.summary.excerpt) < 200 =>
              output.summary.excerpt \in {<<>>, input}

C5_Witness ==
  /\ ParsedHere
  /\ TextLen(input) > 200
  /\ ~HoldsFindingsArray(input)
  /\ \E i \in 1..Len(input) : input[i].t = "obj"
  /\ TextLen(output.summary.excerpt) = 200

\* ------------------------------------------------------------------------
\* deduplicateFindings applied to bounded finding lists
\* ------------------------------------------------------------------------

MaxFindings == 3

Finding(ruleId, severity, file, line, message) ==
  [ruleId |-> Str(ruleId), severity |-> severity, file |-> Str(file), line |-> line,
   message |-> Txt(message), suggestion |-> Undef]

DedupFindings ==
  {Finding("ai/bug-logic", sev, "f", Num(5), msg) :
     sev \in {"error", "warning", "hint"},
     msg \in {MsgSqlInjection, MsgSqlInjectionBang}}
  \cup {Finding("ai/bug-null", sev, "f", line, MsgSqlInjection) :
          sev \in {"warning", "info"}, line \in {Num(0), Undef}}
  \cup {Finding("ai/security-injection", "info", "g", Num(5), MsgSqlInjection)}

InitDedup ==
  /\ envKey = TRUE
  /\ InitCalls
  /\ fn = "deduplicateFindings"
  /\ input \in SeqUpTo(DedupFindings, MaxFindings)
  /\ output = None

ApplyDedup ==
  /\ fn = "deduplicateFindings"
  /\ output = None
  /\ output' = deduplicateFindings(input)
  /\ UNCHANGED <<envKey, staticFindings, pc, actx, passIdx, ddArgs, reviewContext,
                 pending, allPassResults, allFindings, result, exchanges, log, fn, input>>

NextDedup == ApplyDedup

SpecDedup == InitDedup /\ [][NextDedup]_vars

DedupedHere == fn = "deduplicateFindings" /\ output # None

Rank(sev) == CASE sev = "error" -> 4 [] sev = "warning" -> 3 [] sev = "info" -> 2 [] sev = "hint" -> 1

SpecExampleInput ==
  <<Finding("ai/bug-logic", "warning", "f", Num(5), MsgSqlInjection),
    Finding("ai/bug-logic", "error", "f", Num(5), MsgSqlInjectionBang)>>

\* C6: deduplicateFindings returns at most one finding per key (file, line or
\* 0, normalized message); for every key of the input the survivor is an input
\* finding of that key with the highest severity rank; (f, 5, 'SQL injection',
\* warning) and (f, 5, 'sql injection!!', error) collapse to the error one.
C6_DedupKeepsHighest ==
  DedupedHere =>
    /\ ~output.threw
    /\ \A i, j \in 1..Len(output.value) :
         DedupKey(output.value[i]) = DedupKey(output.value[j]) => i = j
    /\ \A i \in 1..Len(input) :
         \E o \in 1..Len(output.value) :
           /\ DedupKey(output.value[o]) = DedupKey(input[i])
           /\ Rank(output.value[o].severity) >= Rank(input[i].severity)
           /\ \E k \in 1..Len(input) : input[k] = output.value[o]
    /\ \A o \in 1..Len(output.value) : \E k \in 1..Len(input) : input[k] = output.value[o]
    /\ input = SpecExampleInput => output.value = <<SpecExampleInput[2]>>

C6_Witness ==
  /\ DedupedHere
  /\ input = SpecExampleInput
  /\ Len(output.value) = 1
  /\ output.value[1].severity = "error"

\* findings of the pass result named passType in a successful result
FindingsOfPass(c, passType) ==
  LET prs == result[c].metadata.passResults
      at == CHOOSE i \in 1..Len(prs) : prs[i].pass = passType
  IN prs[at].findings

PassOrderedFindings(c) ==
  FindingsOfPass(c, "architecture") \o FindingsOfPass(c, "deep-dive")
    \o FindingsOfPass(c, "security")

\* first position, among the findings of the key of f, of the highest rank
FirstOfHighestRank(all, f) ==
  LET same == {i \in 1..Len(all) : DedupKey(all[i]) = DedupKey(f)}
      top == {i \in same : \A j \in same : Rank(all[i].severity) >= Rank(all[j].severity)}
  IN SetMin(top)

\* C7: among findings of one key and equal severity the first one of the
\* concatenation architecture, deep-dive, security survives; a later finding
\* replaces the stored one only when its severity rank is strictly higher.
C7_EarlierPassWinsTies ==
  \A c \in AllCalls :
    Succeeded(c) =>
      LET all == PassOrderedFindings(c)
      IN /\ \A o \in 1..Len(result[c].findings) :
              result[c].findings[o] = all[FirstOfHighestRank(all, result[c].findings[o])]
         /\ \A i \in 1..Len(all) :
              \E o \in 1..Len(result[c].findings) :
                DedupKey(result[c].findings[o]) = DedupKey(all[i])

C7_Witness ==
  /\ Succeeded("c1")
  /\ \E i \in 1..Len(FindingsOfPass("c1", "deep-dive")) :
       \E j \in 1..Len(FindingsOfPass("c1", "security")) :
         LET d == FindingsOfPass("c1", "deep-dive")[i]
             e == FindingsOfPass("c1", "security")[j]
         IN /\ DedupKey(d) = DedupKey(e)
            /\ d.severity = e.severity
            /\ d # e
            /\ \E o \in 1..Len(result["c1"].findings) : result["c1"].findings[o] = d
            /\ \A o \in 1..Len(result["c1"].findings) : result["c1"].findings[o] # e

\* ------------------------------------------------------------------------
\* Slice extractor (slices.ts)
\* ------------------------------------------------------------------------

CONTEXT_LINES == 10

MAX_SLICE_SIZE == 5000

\* '\n// ... truncated'.length
TruncationMarkerLength == 17

\* lines a definition may run past its first line before the scan stops
DefinitionScanLimit == 50

\* A line of a file: its length, whether SECURITY_PATTERNS, /^export\s+/ (on
\* the trimmed line) and IMPORTANT_PATTERNS match it, and how many of its
\* characters are { or ( and } or )
Line(len, sec, exp, imp, opens, closes) ==
  [len |-> len, sec |-> sec, exp |-> exp, imp |-> imp, opens |-> opens, closes |-> closes]

\* ''
BlankLine == Line(0, FALSE, FALSE, FALSE, 0, 0)

\* 'x = 1;'
PlainLine == Line(6, FALSE, FALSE, FALSE, 0, 0)

\* 'password = x'
SecretLine == Line(12, TRUE, FALSE, FALSE, 0, 0)

\* 'export function f() {'
ExportOpenLine == Line(21, FALSE, TRUE, TRUE, 2, 1)

\* 'export const a = 1;'
ExportConstLine == Line(19, FALSE, TRUE, TRUE, 0, 0)

\* '}'
CloseLine == Line(1, FALSE, FALSE, FALSE, 0, 1)

\* a minified line of 6000 characters without braces
HugeLine == Line(6000, FALSE, FALSE, FALSE, 0, 0)

\* Array.prototype.slice(begin, end)
ArraySlice(arr, begin, end) ==
  LET n == Len(arr)
      from == IF begin < 0 THEN Max(n + begin, 0) ELSE Min(begin, n)
      to == IF end < 0 THEN Max(n + end, 0) ELSE Min(end, n)
  IN IF from < to THEN SubSeq(arr, from + 1, to) ELSE <<>>

\* sliceLines.join('\n').length
RECURSIVE JoinedLength(_)
JoinedLength(ls) ==
  IF ls = <<>> THEN 0
  ELSE IF Len(ls) = 1 THEN ls[1].len
  ELSE ls[1].len + 1 + JoinedLength(Tail(ls))

\* a slice content: the joined lines, cut to MAX_SLICE_SIZE characters and
\* followed by the marker when truncated
Content(ls, truncated) == [lines |-> ls, truncated |-> truncated]

ContentLength(content) ==
  IF content.truncated THEN MAX_SLICE_SIZE + TruncationMarkerLength
  ELSE JoinedLength(content.lines)

CodeSlice(startLine, endLine, content, reason) ==
  [startLine |-> startLine, endLine |-> endLine, content |-> content, reason |-> reason]

extractContextSlice(lines, lineNum, reason) ==
  LET startLine == Max(1, lineNum - CONTEXT_LINES)
      endLine == Min(Len(lines), lineNum + CONTEXT_LINES)
      sliceLines == ArraySlice(lines, startLine - 1, endLine)
  IN CodeSlice(startLine, endLine,
               Content(sliceLines, JoinedLength(sliceLines) > MAX_SLICE_SIZE), reason)

\* the scan of extractDefinitionSlice from line j (1-based): the last line
RECURSIVE DefinitionEnd(_, _, _, _, _)
DefinitionEnd(lines, startLineNum, j, braceCount, started) ==
  LET count == braceCount + lines[j].opens - lines[j].closes
      open == started \/ lines[j].opens > 0
  IN IF (open /\ count = 0) \/ j - startLineNum > DefinitionScanLimit \/ j = Len(lines)
     THEN j
     ELSE DefinitionEnd(lines, startLineNum, j + 1, count, open)

\* None for the null the code returns for an oversized definition
extractDefinitionSlice(lines, startLineNum) ==
  LET endLine == DefinitionEnd(lines, startLineNum, startLineNum, 0, FALSE)
      sliceLines == ArraySlice(lines, startLineNum - 1, endLine)
  IN IF JoinedLength(sliceLines) > MAX_SLICE_SIZE THEN None
     ELSE [none |-> FALSE,
           slice |-> CodeSlice(startLineNum, endLine, Content(sliceLines, FALSE),
                               <<"Function/class definition">>)]

\* the members of a set of line numbers in ascending order
Ascending(S) ==
  [k \in 1..Cardinality(S) |-> CHOOSE x \in S : Cardinality({y \in S : y < x}) = k - 1]

\* the line numbers, in file order, of the lines a loop over the file acts on
ExportLines(lines) == Ascending({i \in 1..Len(lines) : lines[i].exp})

SecurityLines(lines) == Ascending({i \in 1..Len(lines) : lines[i].sec})

ImportantLines(lines) == Ascending({i \in 1..Len(lines) : lines[i].imp})

RECURSIVE ExportSlicesFrom(_, _)
ExportSlicesFrom(lines, at) ==
  IF at = <<>> THEN <<>>
  ELSE LET d == extractDefinitionSlice(lines, Head(at))
       IN IF ~d.none
          THEN <<[d.slice EXCEPT !.reason = <<"Export">>]>> \o ExportSlicesFrom(lines, Tail(at))
          ELSE ExportSlicesFrom(lines, Tail(at))

extractExportSlices(lines) == ExportSlicesFrom(lines, ExportLines(lines))

sliceOverlaps(existing, newSlice) ==
  \E i \in 1..Len(existing) :
    newSlice.startLine <= existing[i].endLine /\ newSlice.endLine >= existing[i].startLine

\* [...slices].sort((a, b) => a.startLine - b.startLine): a stable sort
RECURSIVE InsertByStart(_, _)
InsertByStart(sorted, slice) ==
  IF sorted = <<>> THEN <<slice>>
  ELSE IF Head(sorted).startLine <= slice.startLine
       THEN <<Head(sorted)>> \o InsertByStart(Tail(sorted), slice)
       ELSE <<slice>> \o sorted

RECURSIVE SortByStart(_)
SortByStart(slices) ==
  IF slices = <<>> THEN <<>>
  ELSE InsertByStart(SortByStart(SubSeq(slices, 1, Len(slices) - 1)), slices[Len(slices)])

\* reasons are kept as the list of tags the code joins with ', '
combineReasons(reason1, reason2) ==
  IF reason1 = reason2 THEN reason1 ELSE reason1 \o reason2

MergesIntoOverlapOnly(next, current) == next.startLine <= current.endLine

\* the test for overlapping or adjacent
MergesInto(next, current) == next.startLine <= current.endLine + 1

RECURSIVE MergeLoop(_, _, _)
MergeLoop(merged, current, rest) ==
  IF rest = <<>> THEN Append(merged, current)
  ELSE LET next == Head(rest)
       IN IF MergesInto(next, current)
          THEN MergeLoop(merged,
                         [current EXCEPT !.endLine = Max(current.endLine, next.endLine),
                                         !.reason = combineReasons(current.reason, next.reason)],
                         Tail(rest))
          ELSE MergeLoop(Append(merged, current), next, Tail(rest))

mergeOverlappingSlices(slices) ==
  IF Len(slices) = 0 THEN <<>>
  ELSE LET sorted == SortByStart(slices)
       IN MergeLoop(<<>>, Head(sorted), Tail(sorted))

\* mergeOverlappingSlices on objects: heap holds the slice objects, the input
\* array holds the references 1..Len(slices); group and groups record which
\* input objects were merged into current and into the slices of merged
SpreadAlias(heap, ref) == [heap |-> heap, ref |-> ref]

\* { ...slice }: a new object with the fields of the object at ref
SpreadCopy(heap, ref) == [heap |-> Append(heap, heap[ref]), ref |-> Len(heap) + 1]

\* the references of [...slices].sort((a, b) => a.startLine - b.startLine)
SortedRefs(heap) ==
  LET keyed == SortByStart([r \in 1..Len(heap) |-> [startLine |-> heap[r].startLine, ref |-> r]])
  IN [i \in 1..Len(keyed) |-> keyed[i].ref]

RECURSIVE MergeLoopOnHeap(_, _)
MergeLoopOnHeap(st, rest) ==
  IF rest = <<>>
  THEN [st EXCEPT !.merged = Append(@, st.current), !.groups = Append(@, st.group)]
  ELSE LET next == Head(rest)
       IN IF MergesInto(st.heap[next], st.heap[st.current])
          THEN MergeLoopOnHeap(
                 [st EXCEPT
                    !.heap[st.current].endLine = Max(@, st.heap[next].endLine),
                    !.heap[st.current].reason = combineReasons(@, st.heap[next].reason),
                    !.group = @ \cup {next}],
                 Tail(rest))
          ELSE LET copy == SpreadCopy(st.heap, next)
               IN MergeLoopOnHeap(
                    [heap |-> copy.heap, merged |-> Append(st.merged, st.current),
                     groups |-> Append(st.groups, st.group), current |-> copy.ref,
                     group |-> {next}],
                    Tail(rest))

\* the heap after the call, the returned references and their groups
mergeOnHeap(slices) ==
  IF Len(slices) = 0 THEN [heap |-> slices, merged |-> <<>>, groups |-> <<>>]
  ELSE LET sorted == SortedRefs(slices)
           copy == SpreadCopy(slices, Head(sorted))
           st == MergeLoopOnHeap([heap |-> copy.heap, merged |-> <<>>, groups |-> <<>>,
                                  current |-> copy.ref, group |-> {Head(sorted)}],
                                 Tail(sorted))
       IN [heap |-> st.heap, merged |-> st.merged, groups |-> st.groups]

\* the running state of extractSlices
SliceAcc(slices, totalSize) == [slices |-> slices, totalSize |-> totalSize]

\* totalSize + slice.content.length <= maxTotalSize
FitsCap(acc, slice, maxTotalSize) ==
  acc.totalSize + ContentLength(slice.content) <= maxTotalSize

PushSlice(acc, slice) ==
  SliceAcc(Append(acc.slices, slice), acc.totalSize + ContentLength(slice.content))

\* step 1: windows around the static findings of this file
RECURSIVE FindingSlices(_, _, _, _, _)
FindingSlices(acc, lines, filePath, findings, maxTotalSize) ==
  IF findings = <<>> THEN acc
  ELSE LET finding == Head(findings)
           slice == extractContextSlice(lines, finding.line.n,
                                        <<"Static analysis flagged this area">>)
       IN IF finding.file.s = filePath /\ Truthy(finding.line)
             /\ FitsCap(acc, slice, maxTotalSize)
          THEN FindingSlices(PushSlice(acc, slice), lines, filePath, Tail(findings), maxTotalSize)
          ELSE FindingSlices(acc, lines, filePath, Tail(findings), maxTotalSize)

\* step 2: windows around the lines a security pattern matches
RECURSIVE SecuritySlices(_, _, _, _)
SecuritySlices(acc, lines, at, maxTotalSize) ==
  IF at = <<>> THEN acc
  ELSE LET slice == extractContextSlice(lines, Head(at), <<"Security-sensitive code">>)
       IN IF FitsCap(acc, slice, maxTotalSize) /\ ~sliceOverlaps(acc.slices, slice)
          THEN SecuritySlices(PushSlice(acc, slice), lines, Tail(at), maxTotalSize)
          ELSE SecuritySlices(acc, lines, Tail(at), maxTotalSize)

\* step 3: the export slices
RECURSIVE ExportSlices(_, _, _)
ExportSlices(acc, exportSlices, maxTotalSize) ==
  IF exportSlices = <<>> THEN acc
  ELSE LET slice == Head(exportSlices)
       IN IF FitsCap(acc, slice, maxTotalSize) /\ ~sliceOverlaps(acc.slices, slice)
          THEN ExportSlices(PushSlice(acc, slice), Tail(exportSlices), maxTotalSize)
          ELSE ExportSlices(acc, Tail(exportSlices), maxTotalSize)

\* step 4: definitions at the lines an important pattern matches
RECURSIVE DefinitionSlices(_, _, _, _)
DefinitionSlices(acc, lines, at, maxTotalSize) ==
  IF at = <<>> THEN acc
  ELSE LET d == extractDefinitionSlice(lines, Head(at))
       IN IF ~d.none /\ FitsCap(acc, d.slice, maxTotalSize)
             /\ ~sliceOverlaps(acc.slices, d.slice)
          THEN DefinitionSlices(PushSlice(acc, d.slice), lines, Tail(at), maxTotalSize)
          ELSE DefinitionSlices(acc, lines, Tail(at), maxTotalSize)

\* extractSlices(content, filePath, options), content already split in lines
extractSlices(lines, filePath, options) ==
  LET step1 == FindingSlices(SliceAcc(<<>>, 0), lines, filePath,
                             options.staticFindings, options.maxTotalSize)
      step2 == IF options.includeSecurity
               THEN SecuritySlices(step1, lines, SecurityLines(lines), options.maxTotalSize)
               ELSE step1
      step3 == IF options.includeExports
               THEN ExportSlices(step2, extractExportSlices(lines), options.maxTotalSize)
               ELSE step2
      step4 == IF options.includeDefinitions
               THEN DefinitionSlices(step3, lines, ImportantLines(lines), options.maxTotalSize)
               ELSE step3
  IN mergeOverlappingSlices(step4.slices)

\* ------------------------------------------------------------------------
\* mergeOverlappingSlices applied to bounded slice lists
\* ------------------------------------------------------------------------

MaxMergeLine == 4

MaxSlices == 3

NoContent == Content(<<>>, FALSE)

\* slices over lines 1..MaxMergeLine, among them ranges that end before
\* they start (extractContextSlice returns such ranges)
MergeSlices ==
  {CodeSlice(a, b, NoContent, <<"Export">>) : a \in 1..MaxMergeLine, b \in 0..MaxMergeLine}
  \cup {CodeSlice(a, a + 1, NoContent, <<"Security-sensitive code">>) : a \in 1..(MaxMergeLine - 1)}

SpecExampleSlices ==
  <<CodeSlice(1, 10, NoContent, <<"Export">>), CodeSlice(8, 20, NoContent, <<"Export">>)>>

MergeInputs ==
  SeqUpTo(MergeSlices, MaxSlices)
  \cup {SpecExampleSlices, <<SpecExampleSlices[2], SpecExampleSlices[1]>>}

\* a returned array, kept apart from None
Returned(value) == [none |-> FALSE, value |-> value]

InitMerge ==
  /\ envKey = TRUE
  /\ InitCalls
  /\ fn = "mergeOverlappingSlices"
  /\ input \in MergeInputs
  /\ output = None

ApplyMerge ==
  /\ fn = "mergeOverlappingSlices"
  /\ output = None
  /\ LET run == mergeOnHeap(input)
     IN output' = [none |-> FALSE,
                   value |-> mergeOverlappingSlices(input),
                   returned |-> [o \in 1..Len(run.merged) |-> run.heap[run.merged[o]]],
                   groups |-> run.groups,
                   slices |-> [i \in 1..Len(input) |-> run.heap[i]]]
  /\ UNCHANGED <<envKey, staticFindings, pc, actx, passIdx, ddArgs, reviewContext,
                 pending, allPassResults, allFindings, result, exchanges, log, fn, input>>

NextMerge == ApplyMerge

SpecMerge == InitMerge /\ [][NextMerge]_vars

MergedHere == fn = "mergeOverlappingSlices" /\ output # None

LinesOf(slice) == slice.startLine..slice.endLine

\* two ranges that share a line or leave no line between them
OverlapOrAdjacent(a, b) ==
  /\ LinesOf(a) # {} /\ LinesOf(b) # {}
  /\ a.startLine <= b.endLine + 1
  /\ b.startLine <= a.endLine + 1

\* C8: for any list of slices mergeOverlappingSlices returns slices sorted
\* ascending by start line and pairwise non-overlapping; input slices that
\* overlap or are adjacent end up in one output slice, and consecutive output
\* slices satisfy next.startLine > previous.endLine + 1; [1,10] and [8,20]
\* yield exactly [1,20].
C8_MergeSortedDisjoint ==
  MergedHere =>
    /\ \A i, j \in 1..Len(output.value) : i < j => output.value[i].startLine <= output.value[j].startLine
    /\ \A i, j \in 1..Len(output.value) : i # j => LinesOf(output.value[i]) \cap LinesOf(output.value[j]) = {}
    /\ \A i \in 1..(Len(output.value) - 1) : output.value[i + 1].startLine > output.value[i].endLine + 1
    /\ \A i, j \in 1..Len(input) :
         OverlapOrAdjacent(input[i], input[j]) =>
           \E o \in 1..Len(output.value) :
             LinesOf(input[i]) \cup LinesOf(input[j]) \subseteq LinesOf(output.value[o])
    /\ (Len(input) = 2 /\ {input[1], input[2]} = {SpecExampleSlices[1], SpecExampleSlices[2]}) =>
         /\ Len(output.value) = 1
         /\ output.value[1].startLine = 1
         /\ output.value[1].endLine = 20

C8_Witness ==
  /\ MergedHere
  /\ Len(input) = 3
  /\ Len(output.value) = 2
  /\ \E i, j \in 1..3 :
       /\ i < j
       /\ LinesOf(input[i]) # {}
       /\ input[j].endLine + 1 = input[i].startLine

\* the lines covered by a list of slices
Covered(slices) == UNION {LinesOf(slices[i]) : i \in 1..Len(slices)}

MaxFileLines == 3

MaxSliceFindings == 2

LineKinds == {BlankLine, PlainLine, SecretLine, ExportOpenLine, ExportConstLine, CloseLine}

\* longer files: a secret in the middle of 30 lines, an export that never
\* closes, a minified line, twelve plain lines
LongFiles ==
  {[i \in 1..30 |-> IF i = 15 THEN SecretLine ELSE PlainLine],
   [i \in 1..60 |-> IF i = 1 THEN ExportConstLine ELSE PlainLine],
   <<HugeLine, SecretLine>>,
   [i \in 1..12 |-> PlainLine]}

\* content.split('\n') yields at least one line
FileTexts == (SeqUpTo(LineKinds, MaxFileLines) \ {<<>>}) \cup LongFiles

SliceFinding(file, line) ==
  [ruleId |-> Str("static/rule"), severity |-> "warning", file |-> Str(file),
   line |-> line, message |-> Txt(MsgSqlInjection), suggestion |-> Undef]

SliceFindings ==
  {SliceFinding("f", line) : line \in {Undef, Num(-20), Num(1), Num(2), Num(100)}}
  \cup {SliceFinding("g", Num(1))}

SliceOptions ==
  {[staticFindings |-> fs, includeExports |-> on, includeSecurity |-> on,
    includeDefinitions |-> on, maxTotalSize |-> cap] :
     fs \in SeqUpTo(SliceFindings, MaxSliceFindings),
     on \in BOOLEAN,
     cap \in {0, 20, 20000}}

InitSlices ==
  /\ envKey = TRUE
  /\ InitCalls
  /\ fn = "extractSlices"
  /\ input \in [lines : FileTexts, filePath : {"f"}, options : SliceOptions]
  /\ output = None

ApplySlices ==
  /\ fn = "extractSlices"
  /\ output = None
  /\ output' = Returned(extractSlices(input.lines, input.filePath, input.options))
  /\ UNCHANGED <<envKey, staticFindings, pc, actx, passIdx, ddArgs, reviewContext,
                 pending, allPassResults, allFindings, result, exchanges, log, fn, input>>

NextSlices == ApplySlices

SpecSlices == InitSlices /\ [][NextSlices]_vars

SlicedHere == fn = "extractSlices" /\ output # None

\* C9: every slice extractSlices returns is a valid range of the file,
\* 1 <= startLine <= endLine <= number of lines, for any file text, any
\* static findings (any line numbers) and any cap.
C9_SlicesAreValidRanges ==
  SlicedHere =>
    \A i \in 1..Len(output.value) :
      /\ 1 <= output.value[i].startLine
      /\ output.value[i].startLine <= output.value[i].endLine
      /\ output.value[i].endLine <= Len(input.lines)

\* C10: extractSlices with a total-size cap of zero returns an empty list,
\* for every file text and every list of static findings.
C10_ZeroCapReturnsNothing ==
  (SlicedHere /\ input.options.maxTotalSize = 0) => output.value = <<>>

\* ------------------------------------------------------------------------
\* parseAIResponse on a result object surrounded by prose
\* ------------------------------------------------------------------------

\* the token is a JSON object with a findings array whose entries the
\* normalisation accepts
IsValidResult(tok) ==
  /\ tok.t = "obj"
  /\ tok.v.kind = "object"
  /\ tok.v.findings.isArray
  /\ \A i \in 1..Len(tok.v.findings.items) : ~NormalizeEntryThrows(tok.v.findings.items[i])

\* positions of the input where a valid result object stands after prose only
ResultAfterProse(txt) ==
  {i \in 1..Len(txt) : IsValidResult(txt[i]) /\ \A j \in 1..(i - 1) : txt[j].t \in {"ws", "x"}}

\* C17: when the response holds a valid JSON result object surrounded by
\* prose (no code fence), parseAIResponse returns the findings and summary of
\* that first balanced object, whatever braces or further objects follow it.
C17_FirstBalancedObject ==
  (ParsedHere /\ Positions(input, {"fence"}) = {}) =>
    \A i \in ResultAfterProse(input) :
      /\ output.findings =
           [k \in 1..Len(input[i].v.findings.items) |->
              NormalizeEntry(input[i].v.findings.items[k])]
      /\ output.summary = input[i].v.summary

\* the severity the specification gives an entry
SpecifiedSeverity(severity) ==
  IF ~IsString(severity) THEN "info"
  ELSE CASE ToLowerCase(severity.s) \in {"error", "warning", "info", "hint"} ->
              ToLowerCase(severity.s)
         [] ToLowerCase(severity.s) \in {"critical", "high"} -> "error"
         [] ToLowerCase(severity.s) = "medium" -> "warning"
         [] OTHER -> "info"

\* the entries of the findings array JSON.parse yields for the text
ParsedItems(txt) == JSONParse(ExtractJsonStr(txt)).value.findings.items

\* f[field] is absent from the entry (a null entry has no fields)
Missing(f, field) == f.isNull \/ f[field].k = "undefined"

\* C18: every entry of the findings array of a parsed response is kept, in
\* order, as a finding with a severity among error, warning, info, hint
\* (critical, high -> error; medium -> warning; low, other, missing -> info);
\* a missing ruleId, file or message becomes its placeholder; no entry makes
\* the parse fail or drops the other findings.
C18_EveryEntryNormalized ==
  (ParsedHere /\ HoldsFindingsArray(input)) =>
    /\ Len(output.findings) = Len(ParsedItems(input))
    /\ \A i \in 1..Len(ParsedItems(input)) :
         LET f == ParsedItems(input)[i]
             g == output.findings[i]
         IN /\ g.severity \in {"error", "warning", "info", "hint"}
            /\ g.severity = (IF f.isNull THEN "info" ELSE SpecifiedSeverity(f.severity))
            /\ Missing(f, "ruleId") => g.ruleId = Str("ai/unknown")
            /\ Missing(f, "file") => g.file = Str("unknown")
            /\ Missing(f, "message") => g.message = Txt(NoDescription)

\* ------------------------------------------------------------------------
\* normalizeMessage applied to bounded messages
\* ------------------------------------------------------------------------

MaxMessageLen == 4

\* characters messages are built from: letters of both cases, a digit,
\* whitespace and punctuation
MessageChars == {"a", "S", "1", " ", "\t", "!"}

\* a message longer than the key: 'SQL injection' five times over
LongMessage == MsgSqlInjection \o MsgSqlInjectionBang \o MsgSqlInjectionTab
                 \o MsgSqlInjection \o MsgSqlInjectionBang

Messages == SeqUpTo(MessageChars, MaxMessageLen) \cup {LongMessage}

InitNormalize ==
  /\ envKey = TRUE
  /\ InitCalls
  /\ fn = "normalizeMessage"
  /\ input \in Messages
  /\ output = None

ApplyNormalize ==
  /\ fn = "normalizeMessage"
  /\ output = None
  /\ output' = [none |-> FALSE, value |-> normalizeMessage(input)]
  /\ UNCHANGED <<envKey, staticFindings, pc, actx, passIdx, ddArgs, reviewContext,
                 pending, allPassResults, allFindings, result, exchanges, log, fn, input>>

NextNormalize == ApplyNormalize

SpecNormalize == InitNormalize /\ [][NextNormalize]_vars

NormalizedHere == fn = "normalizeMessage" /\ output # None

UpperLetters == {"A", "I", "L", "N", "Q", "S"}

IsPunctuation(c) ==
  c \notin LowerLetters \cup UpperLetters \cup Digits \cup WhitespaceChars

NotPunctuation(c) == ~IsPunctuation(c)

\* C19: the normalized message is lowercase, has no two spaces in a row, holds
\* only letters, digits and single spaces, and is at most 50 characters long;
\* a message that differs from the input only in letter case, in the length
\* of its whitespace runs or in punctuation normalizes to the same text.
C19_NormalizedMessageKey ==
  NormalizedHere =>
    /\ Len(output.value) <= 50
    /\ \A i \in 1..Len(output.value) : output.value[i] \in LowerLetters \cup Digits \cup {" "}
    /\ \A i \in 1..(Len(output.value) - 1) :
         ~(output.value[i] = " " /\ output.value[i + 1] = " ")
    /\ normalizeMessage([i \in 1..Len(input) |-> LowerChar(input[i])]) = output.value
    /\ normalizeMessage(CollapseWhitespace(input)) = output.value
    /\ normalizeMessage(SelectSeq(input, NotPunctuation)) = output.value

\* ------------------------------------------------------------------------
\* Paths (dependency analyzer: src/core/analyzer/dependency/index.ts)
\*
\* A path or an import specifier is the sequence of its '/'-separated
\* segments; a segment is the sequence of its pieces, cut before every '.':
\* 'src/auth.test.ts' is <<<<"src">>, <<"auth", ".test", ".ts">>>>, '..' is
\* the segment <<".", ".">>, and a leading '/' shows as an empty first segment.
\* ------------------------------------------------------------------------

Dot == <<".">>

DotDot == <<".", ".">>

LastOf(seq) == seq[Len(seq)]

\* last piece of the last segment: the text after the last '.' of a file name
LastPiece(path) == LastOf(LastOf(path))

\* the last two pieces of the path are a and one of bs: /a\.(bs)$/
EndsWithPieces(path, a, bs) ==
  /\ Len(LastOf(path)) >= 2
  /\ LastOf(path)[Len(LastOf(path)) - 1] = a
  /\ LastPiece(path) \in bs

\* some directory of the path has a name ending in one of the words: /word\//
HasDirEnding(path, words) ==
  \E i \in 1..(Len(path) - 1) : path[i] # <<>> /\ LastOf(path[i]) \in words

\* the whole path is the one file name: /^name\.ext$/
IsRootFile(path, name, exts) ==
  Len(path) = 1 /\ Len(path[1]) = 2 /\ path[1][1] = name /\ path[1][2] \in exts

\* the path begins with name followed by a dot: /^name\./
BeginsWithDotted(path, names) ==
  Len(path[1]) >= 2 /\ <<path[1][1], path[1][2]>> \in names

\* [jt]sx?
ScriptExtensions == {".js", ".jsx", ".ts", ".tsx"}

\* some piece of the path holds one of the words, letter case ignored
HoldsWord(path, words) ==
  \E i \in 1..Len(path) : \E k \in 1..Len(path[i]) : path[i][k] \in words

TEST_PATTERNS(path) ==
  \/ EndsWithPieces(path, ".test", ScriptExtensions)
  \/ EndsWithPieces(path, ".spec", ScriptExtensions)
  \/ HasDirEnding(path, {"__tests__"})
  \/ EndsWithPieces(path, ".test", {".py"})
  \/ (HoldsWord(path, {"test_db"}) /\ LastPiece(path) = ".py")

CONFIG_PATTERNS(path) ==
  \/ EndsWithPieces(path, ".config", {".js", ".ts"})
  \/ EndsWithPieces(path, ".config", {".js", ".mjs"})
  \/ (path[1] # <<>> /\ path[1][1] = "tsconfig" /\ LastPiece(path) = ".json")
  \/ IsRootFile(path, "package", {".json"})
  \/ path = <<<<".env", ".example">>>>
  \/ BeginsWithDotted(path, {<<name, ".config">> :
                               name \in {"next", "vite", "webpack", "tailwind", "postcss",
                                         "jest", "vitest", "eslint"}}) /\ Len(path[1]) >= 3
  \/ (path[1] # <<>> /\ path[1][1] \in {".eslintrc", ".prettierrc"})

\* /dir\/api\//
HasDirThenApi(path, dirs) ==
  \E i \in 1..(Len(path) - 2) :
    path[i] # <<>> /\ LastOf(path[i]) \in dirs /\ path[i + 1] = <<"api">>

API_PATTERNS(path) ==
  \/ HasDirThenApi(path, {"pages"})
  \/ HasDirThenApi(path, {"app"})
  \/ HasDirEnding(path, {"routes"})
  \/ HasDirEnding(path, {"controller", "controllers"})
  \/ HasDirEnding(path, {"endpoint", "endpoints"})
  \/ \E i \in 2..(Len(path) - 1) : path[i] = <<"api">>

ENTRY_POINT_PATTERNS(path) ==
  \/ \E name \in {"index", "main", "app", "server"} : IsRootFile(path, name, ScriptExtensions)
  \/ (HasDirEnding(path, {"pages"}) /\ LastPiece(path) \in ScriptExtensions)
  \/ (\E i \in 1..(Len(path) - 2) : path[i] # <<>> /\ LastOf(path[i]) = "app")
     /\ Len(LastOf(path)) = 2 /\ LastOf(path)[1] = "page"
     /\ LastPiece(path) \in ScriptExtensions
  \/ (HasDirEnding(path, {"routes"}) /\ LastPiece(path) \in ScriptExtensions)
  \/ \E name \in {"index", "main", "app"} :
       /\ Len(path) = 2 /\ path[1] = <<"src">>
       /\ Len(path[2]) = 2 /\ path[2][1] = name /\ path[2][2] \in ScriptExtensions

\* SECURITY_PATTERNS of the dependency analyzer, tested on the path
SecuritySensitivePath(path) ==
  HoldsWord(path, {"auth", "login", "session", "token", "password", "secret",
                   "credential", "middleware", "permission", "role"})

categorizeFileTestLast(relativePath) ==
  CASE CONFIG_PATTERNS(relativePath) -> "config"
    [] API_PATTERNS(relativePath) -> "api"
    [] ENTRY_POINT_PATTERNS(relativePath) -> "entry"
    [] TEST_PATTERNS(relativePath) -> "test"
    [] HasDirEnding(relativePath, {"component", "components"}) -> "component"
    [] HasDirEnding(relativePath, {"util", "utils", "helper", "helpers", "lib",
                                   "service", "services"}) -> "util"
    [] OTHER -> "other"

categorizeFile(relativePath) ==
  IF TEST_PATTERNS(relativePath) THEN "test"
  ELSE IF CONFIG_PATTERNS(relativePath) THEN "config"
  ELSE IF API_PATTERNS(relativePath) THEN "api"
  ELSE IF ENTRY_POINT_PATTERNS(relativePath) THEN "entry"
  ELSE IF HasDirEnding(relativePath, {"component", "components"}) THEN "component"
  ELSE IF HasDirEnding(relativePath, {"util", "utils", "helper", "helpers", "lib",
                                      "service", "services"}) THEN "util"
  ELSE "other"

\* ------------------------------------------------------------------------
\* Import graph (DependencyAnalyzer.buildGraph, resolveImportPath,
\* calculatePriorities)
\* ------------------------------------------------------------------------

\* A file text as the analyzers read it: its lines, and the matches of the
\* import and export patterns in it, each list in order of occurrence
FileText(lines, esImports, dynamicImports, requires, pyImports, namedExports, exportDefault, reExports, pyDefs) ==
  [none |-> FALSE, lines |-> lines, esImports |-> esImports,
   dynamicImports |-> dynamicImports, requires |-> requires, pyImports |-> pyImports,
   namedExports |-> namedExports, exportDefault |-> exportDefault,
   reExports |-> reExports, pyDefs |-> pyDefs]

\* FileInfo; content is None when the file cannot be read
FileInfo(relativePath, extension, size, content) ==
  [relativePath |-> relativePath, extension |-> extension, size |-> size,
   content |-> content]

\* loadContent(file) is falsy: unreadable, or the empty text
NoText(content) == content.none \/ JoinedLength(content.lines) = 0

ModuleExtensions == {".ts", ".tsx", ".js", ".jsx", ".mjs"}

extractImports(content, extension) ==
  IF extension \in ModuleExtensions
  THEN content.esImports \o content.dynamicImports \o content.requires
  ELSE IF extension = ".py" THEN content.pyImports
  ELSE <<>>

\* names of Python definitions not starting with '_'
PublicName(name) == name \notin {"_private"}

extractExports(content, extension) ==
  IF extension \in ModuleExtensions
  THEN content.namedExports
         \o (IF content.exportDefault THEN <<"default">> ELSE <<>>)
         \o content.reExports
  ELSE IF extension = ".py" THEN SelectSeq(content.pyDefs, PublicName)
  ELSE <<>>

\* path.dirname of a relative path
Dirname(path) == IF Len(path) <= 1 THEN <<Dot>> ELSE SubSeq(path, 1, Len(path) - 1)

\* path.normalize of the segments of a relative path
RECURSIVE NormalizeSegments(_, _)
NormalizeSegments(done, rest) ==
  IF rest = <<>> THEN done
  ELSE LET seg == Head(rest)
       IN IF seg = <<>> \/ seg = Dot THEN NormalizeSegments(done, Tail(rest))
          ELSE IF seg = DotDot
               THEN IF done # <<>> /\ LastOf(done) # DotDot
                    THEN NormalizeSegments(SubSeq(done, 1, Len(done) - 1), Tail(rest))
                    ELSE NormalizeSegments(Append(done, DotDot), Tail(rest))
          ELSE NormalizeSegments(Append(done, seg), Tail(rest))

\* path.normalize(path.join(a, b))
PathJoin(a, b) ==
  LET joined == NormalizeSegments(<<>>, a \o b)
  IN IF joined = <<>> THEN <<Dot>> ELSE joined

\* the candidates appended to the resolved path, in the order tried
ResolveExtensions ==
  <<[index |-> FALSE, ext |-> ".ts"], [index |-> FALSE, ext |-> ".tsx"],
    [index |-> FALSE, ext |-> ".js"], [index |-> FALSE, ext |-> ".jsx"],
    [index |-> FALSE, ext |-> ".mjs"], [index |-> TRUE, ext |-> ".ts"],
    [index |-> TRUE, ext |-> ".tsx"], [index |-> TRUE, ext |-> ".js"]>>

\* resolved + ext
WithExtension(resolved, e) ==
  IF e.index THEN Append(resolved, <<"index", e.ext>>)
  ELSE [resolved EXCEPT ![Len(resolved)] = Append(@, e.ext)]

\* importPath.startsWith('.') ; every piece but a leading name begins with '.'
StartsWithDot(importPath) ==
  /\ importPath[1] # <<>>
  /\ importPath[1][1] \in {".", ".env", ".models", ".eslintrc", ".prettierrc"}

\* importPath.startsWith('/')
StartsWithSlash(importPath) == importPath[1] = <<>>

IsExternalPackageNever(importPath) == FALSE

\* the test that skips external packages
IsExternalPackage(importPath) == ~StartsWithDot(importPath) /\ ~StartsWithSlash(importPath)

\* resolveImportPath after the external-package test; keys is the set of
\* paths of the graph; None for null
ResolveInGraph(importPath, fromFile, keys) ==
  LET resolved == PathJoin(Dirname(fromFile), importPath)
      hits == {k \in 1..Len(ResolveExtensions) :
                 WithExtension(resolved, ResolveExtensions[k]) \in keys}
      stripped == IF Len(resolved) >= 2 /\ resolved[1] = Dot THEN Tail(resolved)
                  ELSE resolved
  IN IF resolved \in keys THEN [none |-> FALSE, path |-> resolved]
     ELSE IF hits # {}
          THEN [none |-> FALSE, path |-> WithExtension(resolved, ResolveExtensions[SetMin(hits)])]
     ELSE IF stripped \in keys THEN [none |-> FALSE, path |-> stripped]
     ELSE None

resolveImportPath(importPath, fromFile, keys) ==
  IF IsExternalPackage(importPath) THEN None
  ELSE ResolveInGraph(importPath, fromFile, keys)

\* the FileNode the first pass creates for a file
FileNode(file) ==
  [path |-> file.relativePath,
   imports |-> IF NoText(file.content) THEN <<>>
               ELSE extractImports(file.content, file.extension),
   importedBy |-> <<>>,
   exports |-> IF NoText(file.content) THEN <<>>
               ELSE extractExports(file.content, file.extension),
   category |-> categorizeFile(file.relativePath),
   size |-> file.size,
   priority |-> Undef]

\* graph.files.set(path, node): a Map keeps the position of a key it holds
MapSet(nodes, node) ==
  LET at == {i \in 1..Len(nodes) : nodes[i].path = node.path}
  IN IF at = {} THEN Append(nodes, node)
     ELSE [nodes EXCEPT ![SetMin(at)] = node]

MapKeys(nodes) == {nodes[i].path : i \in 1..Len(nodes)}

MapGet(nodes, key) == nodes[CHOOSE i \in 1..Len(nodes) : nodes[i].path = key]

EmptyGraph ==
  [files |-> <<>>, entryPoints |-> <<>>, configFiles |-> <<>>, testFiles |-> <<>>,
   apiFiles |-> <<>>]

\* if (category === name) list.push(file.relativePath)
PushIfCategory(list, node, name) ==
  IF node.category = name THEN Append(list, node.path) ELSE list

\* first pass of buildGraph
RECURSIVE CreateNodes(_, _)
CreateNodes(graph, files) ==
  IF files = <<>> THEN graph
  ELSE LET node == FileNode(Head(files))
       IN CreateNodes([files |-> MapSet(graph.files, node),
                       entryPoints |-> PushIfCategory(graph.entryPoints, node, "entry"),
                       configFiles |-> PushIfCategory(graph.configFiles, node, "config"),
                       testFiles |-> PushIfCategory(graph.testFiles, node, "test"),
                       apiFiles |-> PushIfCategory(graph.apiFiles, node, "api")],
                      Tail(files))

ListsImporterNever(importedBy, filePath) == FALSE

\* importedNode.importedBy.includes(filePath)
ListsImporter(importedBy, filePath) == \E i \in 1..Len(importedBy) : importedBy[i] = filePath

\* one iteration of the inner loop of the second pass
AddReverseEdge(nodes, filePath, importPath) ==
  LET resolved == resolveImportPath(importPath, filePath, MapKeys(nodes))
  IN IF resolved.none \/ resolved.path \notin MapKeys(nodes) THEN nodes
     ELSE LET at == CHOOSE i \in 1..Len(nodes) : nodes[i].path = resolved.path
          IN IF ListsImporter(nodes[at].importedBy, filePath) THEN nodes
             ELSE [nodes EXCEPT ![at].importedBy = Append(@, filePath)]

RECURSIVE ImportsLoop(_, _, _)
ImportsLoop(nodes, filePath, imports) ==
  IF imports = <<>> THEN nodes
  ELSE ImportsLoop(AddReverseEdge(nodes, filePath, Head(imports)), filePath, Tail(imports))

\* second pass of buildGraph, from the i-th entry of the Map
RECURSIVE ReverseEdges(_, _)
ReverseEdges(nodes, i) ==
  IF i > Len(nodes) THEN nodes
  ELSE ReverseEdges(ImportsLoop(nodes, nodes[i].path, nodes[i].imports), i + 1)

buildGraph(files) ==
  LET graph == CreateNodes(EmptyGraph, files)
  IN [graph EXCEPT !.files = ReverseEdges(graph.files, 1)]

PriorityScoreUncapped(node) ==
  (IF node.category = "entry" THEN 100 ELSE 0)
  + (IF node.category = "config" THEN 80 ELSE 0)
  + (IF node.category = "api" THEN 70 ELSE 0)
  + Len(node.importedBy) * 10
  + Len(node.imports) * 2
  + Len(node.exports) * 3
  + (IF SecuritySensitivePath(node.path) THEN 50 ELSE 0)
  - (IF node.size > 50000 THEN 20 ELSE 0)
  - (IF node.size > 100000 THEN 30 ELSE 0)
  - (IF node.category = "test" THEN 40 ELSE 0)

\* the score of calculatePriorities before it is clamped at 0
PriorityScoreUnclamped(node) ==
  (IF node.category = "entry" THEN 100 ELSE 0)
  + (IF node.category = "config" THEN 80 ELSE 0)
  + (IF node.category = "api" THEN 70 ELSE 0)
  + Len(node.importedBy) * 10
  + Min(Len(node.imports) * 2, 20)
  + Min(Len(node.exports) * 3, 30)
  + (IF SecuritySensitivePath(node.path) THEN 50 ELSE 0)
  - (IF node.size > 50000 THEN 20 ELSE 0)
  - (IF node.size > 100000 THEN 30 ELSE 0)
  - (IF node.category = "test" THEN 40 ELSE 0)

PriorityOfUnclamped(node) == PriorityScoreUnclamped(node)

\* node.priority = Math.max(0, score)
PriorityOf(node) == Max(0, PriorityScoreUnclamped(node))

calculatePriorities(graph) ==
  [graph EXCEPT !.files = [i \in 1..Len(graph.files) |->
                             [graph.files[i] EXCEPT !.priority = Num(PriorityOf(graph.files[i]))]]]

\* ------------------------------------------------------------------------
\* DependencyAnalyzer.analyze applied to bounded file lists
\* ------------------------------------------------------------------------

MaxGraphFiles == 3

\* a script text with the given import specifiers and named exports
ScriptText(esImports, dynamicImports, requires, namedExports, exportDefault) ==
  FileText(<<PlainLine>>, esImports, dynamicImports, requires, <<>>, namedExports,
           exportDefault, <<>>, <<>>)

\* a text without imports or exports
PlainText == FileText(<<PlainLine>>, <<>>, <<>>, <<>>, <<>>, <<>>, FALSE, <<>>, <<>>)

\* import specifiers: 'react', './auth', '../auth', '../auth.ts', '/index',
\* './lib/util', '../lib/util', './components', '../index', 'os', '.models'
SpecReact == <<<<"react">>>>

SpecAuth == <<Dot, <<"auth">>>>

SpecUpAuth == <<DotDot, <<"auth">>>>

SpecUpAuthTs == <<DotDot, <<"auth", ".ts">>>>

SpecRootIndex == <<<<>>, <<"index">>>>

SpecLibUtil == <<Dot, <<"lib">>, <<"util">>>>

SpecUpLibUtil == <<DotDot, <<"lib">>, <<"util">>>>

SpecComponents == <<Dot, <<"components">>>>

SpecUpIndex == <<DotDot, <<"index">>>>

\* relative paths of the files
PathIndexTs == <<<<"index", ".ts">>>>

PathAuthTs == <<<<"auth", ".ts">>>>

PathLibUtilTs == <<<<"lib">>, <<"util", ".ts">>>>

PathAuthTest == <<<<"__tests__">>, <<"auth", ".test", ".ts">>>>

PathReact == <<<<"react">>>>

PathPackageJson == <<<<"package", ".json">>>>

PathRoutesUsers == <<<<"routes">>, <<"users", ".ts">>>>

PathComponentsIndex == <<<<"components">>, <<"index", ".tsx">>>>

\* the files graphs are built from
GraphFiles ==
  {FileInfo(PathIndexTs, ".ts", 400,
            ScriptText(<<SpecAuth, SpecReact, SpecLibUtil>>, <<SpecComponents>>, <<>>,
                       <<"main", "run">>, TRUE)),
   FileInfo(PathAuthTs, ".ts", 60000,
            ScriptText(<<SpecReact>>, <<>>, <<SpecRootIndex>>, <<"login">>, FALSE)),
   FileInfo(PathLibUtilTs, ".ts", 900,
            ScriptText(<<SpecUpAuth, SpecUpAuthTs>>, <<>>, <<>>, <<"a", "b", "c">>, FALSE)),
   FileInfo(PathAuthTest, ".ts", 120000,
            ScriptText(<<SpecUpAuth, SpecUpLibUtil>>, <<>>, <<>>, <<>>, FALSE)),
   FileInfo(PathReact, "", 10, PlainText),
   FileInfo(PathPackageJson, ".json", 300, PlainText),
   FileInfo(PathRoutesUsers, ".ts", 2000,
            ScriptText(<<SpecUpAuth, SpecReact>>, <<>>, <<>>, <<>>, TRUE)),
   FileInfo(PathComponentsIndex, ".tsx", 700,
            ScriptText(<<SpecUpLibUtil, SpecUpIndex>>, <<>>, <<>>, <<"View">>, FALSE)),
   FileInfo(<<<<"vite", ".config", ".ts">>>>, ".ts", 200,
            ScriptText(<<SpecReact>>, <<>>, <<>>, <<>>, TRUE)),
   FileInfo(<<<<"src">>, <<"api">>, <<"login", ".test", ".ts">>>>, ".ts", 500, None),
   FileInfo(<<<<"pages">>, <<"api">>, <<"auth", ".config", ".ts">>>>, ".ts", 100, PlainText),
   FileInfo(<<<<"src">>, <<"components">>, <<"utils">>, <<"x", ".ts">>>>, ".ts", 100,
            ScriptText(<<>>, <<>>, <<>>, <<>>, FALSE)),
   FileInfo(<<<<"test_db", ".py">>>>, ".py", 100,
            FileText(<<PlainLine>>, <<>>, <<>>, <<>>, <<<<<<"os">>>>, <<<<".models">>>>>>,
                     <<>>, FALSE, <<>>, <<"run", "_private">>))}

\* a scan yields every relative path once
FileLists ==
  {fs \in SeqUpTo(GraphFiles, MaxGraphFiles) :
     \A i, j \in 1..Len(fs) : fs[i].relativePath = fs[j].relativePath => i = j}

InitGraph ==
  /\ envKey = TRUE
  /\ InitCalls
  /\ fn = "analyzeDependencies"
  /\ input \in FileLists
  /\ output = None

\* DependencyAnalyzer.analyze: buildGraph, then calculatePriorities
ApplyGraph ==
  /\ fn = "analyzeDependencies"
  /\ output = None
  /\ output' = [none |-> FALSE, value |-> calculatePriorities(buildGraph(input))]
  /\ UNCHANGED <<envKey, staticFindings, pc, actx, passIdx, ddArgs, reviewContext,
                 pending, allPassResults, allFindings, result, exchanges, log, fn, input>>

NextGraph == ApplyGraph

SpecGraph == InitGraph /\ [][NextGraph]_vars

GraphHere == fn = "analyzeDependencies" /\ output # None

NodesHere == output.value.files

\* C13: in every graph buildGraph produces, every path P in B.importedBy is a
\* node of the graph with an import specifier that resolveImportPath resolves,
\* from P, to B's path; no importedBy list holds an entry twice.
C13_ReverseEdgesSound ==
  GraphHere =>
    \A b \in 1..Len(NodesHere) :
      LET B == NodesHere[b]
      IN /\ \A k \in 1..Len(B.importedBy) :
              /\ B.importedBy[k] \in MapKeys(NodesHere)
              /\ \E j \in 1..Len(MapGet(NodesHere, B.importedBy[k]).imports) :
                   resolveImportPath(MapGet(NodesHere, B.importedBy[k]).imports[j],
                                     B.importedBy[k], MapKeys(NodesHere))
                     = [none |-> FALSE, path |-> B.path]
         /\ \A k, l \in 1..Len(B.importedBy) : B.importedBy[k] = B.importedBy[l] => k = l

\* lib/util.ts imports '../auth' and '../auth.ts': both resolve to auth.ts
C13_Witness ==
  /\ GraphHere
  /\ PathAuthTs \in MapKeys(NodesHere)
  /\ PathLibUtilTs \in MapKeys(NodesHere)
  /\ PathIndexTs \in MapKeys(NodesHere)
  /\ ToSet(MapGet(NodesHere, PathAuthTs).importedBy) = {PathLibUtilTs, PathIndexTs}
  /\ MapGet(NodesHere, PathIndexTs).importedBy = <<PathAuthTs>>

\* the specifier begins with neither '.' nor '/'
BareSpecifier(importPath) == ~StartsWithDot(importPath) /\ ~StartsWithSlash(importPath)

\* C14: a bare specifier never produces a graph edge: every entry P of an
\* importedBy list of B is accounted for by a specifier of P that starts with
\* '.' or '/' and resolves to B, and a file whose specifiers are all bare is
\* in no importedBy list, also when a file with the specifier's exact path
\* is in the graph.
C14_BareSpecifierNoEdge ==
  GraphHere =>
    \A b \in 1..Len(NodesHere) :
      \A k \in 1..Len(NodesHere[b].importedBy) :
        LET P == MapGet(NodesHere, NodesHere[b].importedBy[k])
        IN \E j \in 1..Len(P.imports) :
             /\ ~BareSpecifier(P.imports[j])
             /\ ResolveInGraph(P.imports[j], P.path, MapKeys(NodesHere))
                  = [none |-> FALSE, path |-> NodesHere[b].path]

\* a file named react is in the graph, index.ts imports 'react'
C14_Witness ==
  /\ GraphHere
  /\ PathReact \in MapKeys(NodesHere)
  /\ PathIndexTs \in MapKeys(NodesHere)
  /\ \E j \in 1..Len(MapGet(NodesHere, PathIndexTs).imports) :
       MapGet(NodesHere, PathIndexTs).imports[j] = SpecReact
  /\ MapGet(NodesHere, PathReact).importedBy = <<>>

Precedence == <<"test", "config", "api", "entry", "component", "util", "other">>

\* the pattern set of a category matches the path
CategoryMatches(category, path) ==
  CASE category = "test" -> TEST_PATTERNS(path)
    [] category = "config" -> CONFIG_PATTERNS(path)
    [] category = "api" -> API_PATTERNS(path)
    [] category = "entry" -> ENTRY_POINT_PATTERNS(path)
    [] category = "component" -> HasDirEnding(path, {"component", "components"})
    [] category = "util" -> HasDirEnding(path, {"util", "utils", "helper", "helpers", "lib",
                                                "service", "services"})
    [] category = "other" -> TRUE

DerivedLists(graph) ==
  [entry |-> graph.entryPoints, config |-> graph.configFiles, test |-> graph.testFiles,
   api |-> graph.apiFiles]

\* C15: every file has the first category, in the order test, config, api,
\* entry, component, util, other, whose patterns match its path; it is in the
\* derived list of that category (when the category has one) and in no other;
\* __tests__/auth.test.ts is categorized test.
C15_CategoryByPrecedence ==
  GraphHere =>
    \A n \in 1..Len(NodesHere) :
      LET node == NodesHere[n]
      IN /\ \E k \in 1..Len(Precedence) :
              /\ node.category = Precedence[k]
              /\ CategoryMatches(Precedence[k], node.path)
              /\ \A j \in 1..(k - 1) : ~CategoryMatches(Precedence[j], node.path)
         /\ \A c \in DOMAIN DerivedLists(output.value) :
              node.path \in ToSet(DerivedLists(output.value)[c]) <=> node.category = c
         /\ node.path = PathAuthTest => node.category = "test"

\* src/api/login.test.ts matches the API and security patterns and is a test
C15_Witness ==
  /\ GraphHere
  /\ \E n \in 1..Len(NodesHere) :
       /\ API_PATTERNS(NodesHere[n].path)
       /\ SecuritySensitivePath(NodesHere[n].path)
       /\ NodesHere[n].category = "test"
       /\ NodesHere[n].path \in ToSet(output.value.testFiles)
       /\ NodesHere[n].path \notin ToSet(output.value.apiFiles)
  /\ PathAuthTest \in MapKeys(NodesHere)

\* ------------------------------------------------------------------------
\* calculatePriorities applied to nodes of every shape
\* ------------------------------------------------------------------------

MaxDegree == 3

\* a list of k entries (only its length enters the score)
ListOf(k, entry) == [i \in 1..k |-> entry]

\* import and export counts below and above the caps of the score
CountsScored == {0, MaxDegree, 11}

FileSizes == {0, 50000, 50001, 100000, 100001}

ScoredNodes ==
  {[path |-> path, imports |-> ListOf(imports, SpecReact),
    importedBy |-> ListOf(importers, PathIndexTs), exports |-> ListOf(exports, "a"),
    category |-> category, size |-> size, priority |-> Undef] :
     path \in {PathAuthTs, PathReact},
     imports \in CountsScored,
     importers \in 0..MaxDegree,
     exports \in CountsScored,
     category \in {"test", "config", "api", "entry", "component", "util", "other"},
     size \in FileSizes}

InitPriority ==
  /\ envKey = TRUE
  /\ InitCalls
  /\ fn = "calculatePriorities"
  /\ input \in {[EmptyGraph EXCEPT !.files = <<node>>] : node \in ScoredNodes}
  /\ output = None

ApplyPriority ==
  /\ fn = "calculatePriorities"
  /\ output = None
  /\ output' = [none |-> FALSE, value |-> calculatePriorities(input)]
  /\ UNCHANGED <<envKey, staticFindings, pc, actx, passIdx, ddArgs, reviewContext,
                 pending, allPassResults, allFindings, result, exchanges, log, fn, input>>

NextPriority == ApplyPriority

SpecPriority == InitPriority /\ [][NextPriority]_vars

PrioritizedHere == fn = "calculatePriorities" /\ output # None

\* C16: after calculatePriorities every node has a numeric priority >= 0,
\* whatever its category, importer, import and export counts, path and size.
C16_PriorityNonNegative ==
  PrioritizedHere =>
    \A n \in 1..Len(output.value.files) :
      /\ output.value.files[n].priority.k = "number"
      /\ output.value.files[n].priority.n >= 0

\* a large test file without importers: the penalties exceed the bonuses
C16_Witness ==
  /\ PrioritizedHere
  /\ input.files[1].category = "test"
  /\ input.files[1].size > 100000
  /\ input.files[1].importedBy = <<>>
  /\ PriorityScoreUnclamped(input.files[1]) < 0
  /\ output.value.files[1].priority = Num(0)

\* the base score of a category
BaseScore(category) ==
  CASE category = "entry" -> 100
    [] category = "config" -> 80
    [] category = "api" -> 70
    [] OTHER -> 0

\* the size penalty: 20 above 50 KB, a further 30 above 100 KB (in bytes:
\* 50,000 and 100,000)
SizePenalty(size) ==
  IF size > 100000 THEN 50 ELSE IF size > 50000 THEN 20 ELSE 0

\* C23: the priority of every node is max(0, base + 10 x importers +
\* min(2 x imports, 20) + min(3 x exports, 30) + 50 for a security-keyword
\* path - size penalty - 40 for a test), and a second run over the same graph
\* gives the same scores.
C23_PriorityFormula ==
  PrioritizedHere =>
    /\ \A n \in 1..Len(output.value.files) :
         LET node == input.files[n]
             capImports == IF 2 * Len(node.imports) < 20 THEN 2 * Len(node.imports) ELSE 20
             capExports == IF 3 * Len(node.exports) < 30 THEN 3 * Len(node.exports) ELSE 30
             score == BaseScore(node.category) + 10 * Len(node.importedBy)
                        + capImports + capExports
                        + (IF SecuritySensitivePath(node.path) THEN 50 ELSE 0)
                        - SizePenalty(node.size)
                        - (IF node.category = "test" THEN 40 ELSE 0)
         IN output.value.files[n].priority = Num(IF score > 0 THEN score ELSE 0)
    /\ calculatePriorities(output.value) = output.value
    /\ calculatePriorities(input) = output.value

\* an entry point on a security path, above both caps and both size limits:
\* 100 + 30 + 20 + 30 + 50 - 50 = 180
C23_Witness ==
  /\ PrioritizedHere
  /\ input.files[1].category = "entry"
  /\ Len(input.files[1].importedBy) = 3
  /\ Len(input.files[1].imports) = 11
  /\ Len(input.files[1].exports) = 11
  /\ SecuritySensitivePath(input.files[1].path)
  /\ input.files[1].size = 100001
  /\ output.value.files[1].priority = Num(180)

\* ------------------------------------------------------------------------
\* Context builders (ai/context.ts)
\* ------------------------------------------------------------------------

TOKEN_BUDGETS(passType) ==
  CASE passType = "architecture" -> 15000
    [] passType = "deep-dive" -> 40000
    [] passType = "security" -> 25000

SLICE_THRESHOLD == 51200

SliceCharLimit == 20000

\* estimateTokens of a text of the given length: Math.ceil(length / 4)
estimateTokens(length) == (length + 3) \div 4

\* reconstructSliceContent(content, slices), content already split in lines
reconstructSliceContent(lines, slices) ==
  [i \in 1..Len(slices) |->
     [slices[i] EXCEPT !.content =
        Content(ArraySlice(lines, slices[i].startLine - 1, slices[i].endLine), FALSE)]]

\* slices.map((s) => s.content).join('\n').length
RECURSIVE JoinedSliceLength(_)
JoinedSliceLength(slices) ==
  IF slices = <<>> THEN 0
  ELSE IF Len(slices) = 1 THEN ContentLength(slices[1].content)
  ELSE ContentLength(slices[1].content) + 1 + JoinedSliceLength(Tail(slices))

\* a ContextFile with the full text, or with slices
FullContextFile(file, reason) ==
  [none |-> FALSE, path |-> file.relativePath, sliced |-> FALSE,
   content |-> file.content.lines, slices |-> <<>>, reason |-> reason, priority |-> 50]

SlicedContextFile(file, slices, reason) ==
  [none |-> FALSE, path |-> file.relativePath, sliced |-> TRUE,
   content |-> <<>>, slices |-> slices, reason |-> <<reason, " (sliced)">>, priority |-> 50]

\* tokens < remainingBudget, the test that admits a full text
FitsRemaining(tokens, remainingBudget) == tokens < remainingBudget

\* buildContextFile(file, reason, remainingBudget, findings); None for null
buildContextFile(file, reason, remainingBudget, findings) ==
  IF NoText(file.content) THEN None
  ELSE LET lines == file.content.lines
           tokens == estimateTokens(JoinedLength(lines))
           slices == extractSlices(lines, file.relativePath,
                                   [staticFindings |-> findings, includeExports |-> TRUE,
                                    includeSecurity |-> TRUE, includeDefinitions |-> TRUE,
                                    maxTotalSize |-> Min(remainingBudget * 4, SliceCharLimit)])
           reconstructed == reconstructSliceContent(lines, slices)
           sliceTokens == estimateTokens(JoinedSliceLength(reconstructed))
       IN IF file.size < SLICE_THRESHOLD /\ FitsRemaining(tokens, remainingBudget)
          THEN FullContextFile(file, reason)
          ELSE IF sliceTokens > remainingBudget THEN None
          ELSE IF sliceTokens * 10 > tokens * 8 /\ FitsRemaining(tokens, remainingBudget)
               THEN FullContextFile(file, reason)
          ELSE SlicedContextFile(file, reconstructed, reason)

\* contextFile.content || contextFile.slices?.map((s) => s.content).join('\n') || ''
ContentOrSlicesLength(contextFile) ==
  IF ~contextFile.sliced THEN JoinedLength(contextFile.content)
  ELSE JoinedSliceLength(contextFile.slices)

\* contextFile.content || ''
ContentOrEmptyLength(contextFile) ==
  IF ~contextFile.sliced THEN JoinedLength(contextFile.content) ELSE 0

\* the length of a path as text
RECURSIVE PiecesLength(_)
PiecesLength(pieces) ==
  IF pieces = <<>> THEN 0 ELSE Len(Head(pieces)) + PiecesLength(Tail(pieces))

RECURSIVE PathLength(_)
PathLength(path) ==
  IF path = <<>> THEN 0
  ELSE IF Len(path) = 1 THEN PiecesLength(path[1])
  ELSE PiecesLength(path[1]) + 1 + PathLength(Tail(path))

\* buildFileTree(files).length: the paths joined by newlines
RECURSIVE FileTreeLength(_)
FileTreeLength(files) ==
  IF files = <<>> THEN 0
  ELSE IF Len(files) = 1 THEN PathLength(files[1].relativePath)
  ELSE PathLength(files[1].relativePath) + 1 + FileTreeLength(Tail(files))

\* context.files.find((f) => f.relativePath === p); None for undefined
FindFile(files, relativePath) ==
  LET at == {i \in 1..Len(files) : files[i].relativePath = relativePath}
  IN IF at = {} THEN None ELSE [none |-> FALSE, file |-> files[SetMin(at)]]

\* paths.map(find).filter(defined)
RECURSIVE FilesOfPaths(_, _)
FilesOfPaths(files, paths) ==
  IF paths = <<>> THEN <<>>
  ELSE LET found == FindFile(files, Head(paths))
       IN (IF found.none THEN <<>> ELSE <<found.file>>) \o FilesOfPaths(files, Tail(paths))

\* array.slice(0, k)
FirstK(seq, k) == SubSeq(seq, 1, Min(k, Len(seq)))

\* One iteration of a loop of a builder, as data: the candidate file, the
\* reason given to it, the findings handed to buildContextFile, whether the
\* loop body calls buildContextFile ("build") or pushes the full text itself
\* ("direct"), whether it first looks the path up in files (dedup), which
\* part of the admitted file it adds to usedTokens ("all", "content", "none")
\* and the 90% rule of the loop ("none", "break", "skip")
Candidate(file, reason, findings, kind, dedup, counted, rule, priority) ==
  [file |-> file, reason |-> reason, findings |-> findings, kind |-> kind,
   dedup |-> dedup, counted |-> counted, rule |-> rule, priority |-> priority]

CandidatesOf(files, reason, kind, dedup, counted, rule, priority) ==
  [i \in 1..Len(files) |->
     Candidate(files[i], reason, <<>>, kind, dedup, counted, rule, priority)]

\* the locals of a builder: files, usedTokens, and whether a loop has hit break
BuilderLocals(files, usedTokens, broke) ==
  [files |-> files, usedTokens |-> usedTokens, broke |-> broke]

\* files.find((f) => f.path === file.relativePath)
AlreadyPicked(files, relativePath) == \E i \in 1..Len(files) : files[i].path = relativePath

\* usedTokens >= budget * 0.9
BufferReached(usedTokens, budget) == usedTokens * 10 >= budget * 9

\* what the loop body pushes for the candidate, None when it pushes nothing
Picked(locals, cand, budget) ==
  IF cand.kind = "build"
  THEN buildContextFile(cand.file, cand.reason, budget - locals.usedTokens, cand.findings)
  ELSE IF NoText(cand.file.content) THEN None
  ELSE IF locals.usedTokens + estimateTokens(JoinedLength(cand.file.content.lines)) < budget
       THEN [FullContextFile(cand.file, cand.reason) EXCEPT !.priority = cand.priority]
  ELSE None

\* the tokens the loop body adds to usedTokens for what it pushed
Counted(cand, contextFile) ==
  CASE cand.counted = "all" -> estimateTokens(ContentOrSlicesLength(contextFile))
    [] cand.counted = "content" -> estimateTokens(ContentOrEmptyLength(contextFile))
    [] cand.counted = "none" -> 0

\* one iteration of a loop of a builder
BuilderStep(locals, cand, budget) ==
  IF locals.broke \/ (cand.rule = "break" /\ BufferReached(locals.usedTokens, budget))
  THEN [locals EXCEPT !.broke = TRUE]
  ELSE IF cand.rule = "skip" /\ BufferReached(locals.usedTokens, budget) THEN locals
  ELSE IF cand.dedup /\ AlreadyPicked(locals.files, cand.file.relativePath) THEN locals
  ELSE LET contextFile == Picked(locals, cand, budget)
       IN IF contextFile.none THEN locals
          ELSE BuilderLocals(Append(locals.files, contextFile),
                             locals.usedTokens + Counted(cand, contextFile), FALSE)

PackageFiles ==
  <<<<<<"package", ".json">>>>, <<<<"pyproject", ".toml">>>>, <<<<"requirements", ".txt">>>>>>

\* /readme\.md$/i
IsReadme(path) ==
  /\ Len(LastOf(path)) >= 2
  /\ LastOf(path)[Len(LastOf(path)) - 1] \in {"readme", "README", "Readme"}
  /\ LastPiece(path) \in {".md", ".MD"}

\* array.find(test) as a list of at most one element
FirstWhere(files, Test(_)) == FirstK(SelectSeq(files, Test), 1)

\* the iterations of buildArchitectureContext, in order
ArchitectureCandidates(files, graph) ==
  LET IsReadmeFile(f) == IsReadme(f.relativePath)
  IN CandidatesOf(FilesOfPaths(files, PackageFiles), "Package configuration",
                  "direct", FALSE, "all", "none", 100)
     \o CandidatesOf(FirstK(FilesOfPaths(files, graph.entryPoints), 5), "Entry point",
                     "build", FALSE, "all", "none", 50)
     \o CandidatesOf(FirstK(FilesOfPaths(files, graph.configFiles), 5), "Configuration",
                     "build", FALSE, "content", "none", 50)
     \o CandidatesOf(FirstWhere(files, IsReadmeFile), "Project documentation",
                     "direct", FALSE, "none", "none", 50)

\* node.priority || 0
PriorityOrZero(node) == IF Truthy(node.priority) THEN node.priority.n ELSE 0

\* nodes.sort((a, b) => (b.priority || 0) - (a.priority || 0)): a stable sort
RECURSIVE InsertByPriority(_, _)
InsertByPriority(sorted, node) ==
  IF sorted = <<>> THEN <<node>>
  ELSE IF PriorityOrZero(Head(sorted)) >= PriorityOrZero(node)
       THEN <<Head(sorted)>> \o InsertByPriority(Tail(sorted), node)
       ELSE <<node>> \o sorted

RECURSIVE SortByPriority(_)
SortByPriority(nodes) ==
  IF nodes = <<>> THEN <<>>
  ELSE InsertByPriority(SortByPriority(SubSeq(nodes, 1, Len(nodes) - 1)), nodes[Len(nodes)])

\* extractMentionedFiles(findings, allFiles)
RECURSIVE extractMentionedFiles(_, _, _)
extractMentionedFiles(mentioned, findings, allFiles) ==
  IF findings = <<>> THEN mentioned
  ELSE LET found == IF Head(findings).file.k = "string"
                    THEN FindFile(allFiles, Head(findings).file.s) ELSE None
       IN IF ~found.none /\ found.file \notin ToSet(mentioned)
          THEN extractMentionedFiles(Append(mentioned, found.file), Tail(findings), allFiles)
          ELSE extractMentionedFiles(mentioned, Tail(findings), allFiles)

HighConnectivityMinimum == 3

ReviewedCategoryAny(n) == TRUE

\* (n) => n.category !== 'test' && n.category !== 'config'
ReviewedCategory(n) == n.category # "test" /\ n.category # "config"

\* the iterations of buildDeepDiveContext, in order
DeepDiveCandidates(files, graph, findings, architectureFindings) ==
  LET sortedNodes == SortByPriority(SelectSeq(graph.files, ReviewedCategory))
      Flagged(f) == \E i \in 1..Len(findings) : findings[i].file.s = f.relativePath
      flaggedFiles == SelectSeq(files, Flagged)
      FindingsOf(f) == LET Of(x) == x.file.s = f.relativePath IN SelectSeq(findings, Of)
      Connected(n) == Len(n.importedBy) >= HighConnectivityMinimum
      highConnectivity == FirstK(SelectSeq(sortedNodes, Connected), 10)
      PathsOf(nodes) == [i \in 1..Len(nodes) |-> nodes[i].path]
  IN [i \in 1..Len(flaggedFiles) |->
        Candidate(flaggedFiles[i], "Static analysis flagged", FindingsOf(flaggedFiles[i]),
                  "build", FALSE, "all", "none", 50)]
     \o CandidatesOf(extractMentionedFiles(<<>>, architectureFindings, files),
                     "Flagged in architecture review", "build", TRUE, "all", "none", 50)
     \o CandidatesOf(FilesOfPaths(files, PathsOf(highConnectivity)), "High connectivity",
                     "build", TRUE, "all", "none", 50)
     \o CandidatesOf(FilesOfPaths(files, PathsOf(sortedNodes)), "Priority score",
                     "build", TRUE, "all", "break", 50)

\* the securityPatterns of buildSecurityContext, tested on the path
SecurityFileName(path) ==
  HoldsWord(path, {"auth", "login", "session", "token", "password", "secret",
                   "credential", "middleware", "permission", "role", "crypto",
                   "encrypt", "hash", "sanitize", "validate"})

\* /\.env\.example|\.env\.sample|config.*\.(ts|js|json)$/i
EnvironmentFileName(path) ==
  \/ \E i \in 1..Len(path) : \E k \in 1..(Len(path[i]) - 1) :
       path[i][k] = ".env" /\ path[i][k + 1] \in {".example", ".sample"}
  \/ /\ LastPiece(path) \in {".ts", ".js", ".json"}
     /\ \E i \in 1..Len(path) : \E k \in 1..Len(path[i]) :
          /\ path[i][k] \in {"config", ".config", "tsconfig"}
          /\ (i < Len(path) \/ k < Len(path[i]))

\* dbPatterns: model, schema, database, db\., migration, query
DatabaseFileName(path) ==
  \/ HoldsWord(path, {"model", "models", "schema", "database", "migration", "query"})
  \/ \E i \in 1..Len(path) : \E k \in 1..(Len(path[i]) - 1) : path[i][k] \in {"db", "test_db"}

\* the iterations of buildSecurityContext, in order
SecurityCandidates(files, graph) ==
  LET SecurityNamed(f) == SecurityFileName(f.relativePath)
      EnvironmentNamed(f) == EnvironmentFileName(f.relativePath)
      DatabaseNamed(f) == DatabaseFileName(f.relativePath)
  IN CandidatesOf(FilesOfPaths(files, graph.apiFiles), "API route",
                  "build", FALSE, "all", "none", 50)
     \o CandidatesOf(SelectSeq(files, SecurityNamed), "Security-sensitive file",
                     "build", TRUE, "all", "none", 50)
     \o CandidatesOf(SelectSeq(files, EnvironmentNamed), "Environment/Config",
                     "build", TRUE, "content", "none", 50)
     \o CandidatesOf(SelectSeq(files, DatabaseNamed), "Database/Model",
                     "build", TRUE, "all", "skip", 50)

\* usedTokens before the first loop: the file tree in the architecture pass
InitialTokens(passType, files) ==
  IF passType = "architecture" THEN estimateTokens(FileTreeLength(files)) ELSE 0

BuilderCandidates(passType, files, graph, findings, architectureFindings) ==
  CASE passType = "architecture" -> ArchitectureCandidates(files, graph)
    [] passType = "deep-dive" ->
         DeepDiveCandidates(files, graph, findings, architectureFindings)
    [] passType = "security" -> SecurityCandidates(files, graph)

\* ------------------------------------------------------------------------
\* The three context builders applied to bounded file sets
\* ------------------------------------------------------------------------

MaxContextFiles == 4

\* a line of the given length that no pattern matches
WideLine(len) == Line(len, FALSE, FALSE, FALSE, 0, 0)

TextOf(lines, esImports) ==
  FileText(lines, esImports, <<>>, <<>>, <<>>, <<>>, FALSE, <<>>, <<>>)

\* 40 lines, 58,551 characters: a secret on line 1, then lines of 1500
SecretThenLongLines == [i \in 1..40 |-> IF i = 1 THEN SecretLine ELSE WideLine(1500)]

\* 16 lines of 3000 characters: 48,015 characters, 12,004 tokens
SixteenLongLines == [i \in 1..16 |-> WideLine(3000)]

PathViteConfig == <<<<"vite", ".config", ".ts">>>>

PathTsconfig == <<<<"tsconfig", ".json">>>>

PathSchema == <<<<"schema", ".ts">>>>

PathReadme == <<<<"README", ".md">>>>

PathSession == <<<<"src">>, <<"session", ".ts">>>>

\* the files of a repository, in scan order
ContextUniverse ==
  <<FileInfo(PathPackageJson, ".json", 6, TextOf(<<PlainLine>>, <<>>)),
    FileInfo(PathViteConfig, ".ts", 60000, TextOf(SecretThenLongLines, <<>>)),
    FileInfo(PathTsconfig, ".json", 48015, TextOf(SixteenLongLines, <<>>)),
    FileInfo(PathSchema, ".ts", 48015, TextOf(SixteenLongLines, <<>>)),
    FileInfo(PathIndexTs, ".ts", 26, TextOf(<<ExportOpenLine, PlainLine, CloseLine>>, <<SpecAuth>>)),
    FileInfo(PathAuthTs, ".ts", 19, TextOf(<<SecretLine, PlainLine>>, <<>>)),
    FileInfo(PathRoutesUsers, ".ts", 6, TextOf(<<PlainLine>>, <<SpecUpAuth>>)),
    FileInfo(PathLibUtilTs, ".ts", 19, TextOf(<<ExportConstLine>>, <<SpecUpAuth>>)),
    FileInfo(PathReadme, ".md", 6, TextOf(<<PlainLine>>, <<>>)),
    FileInfo(PathSession, ".ts", 48015, TextOf(SixteenLongLines, <<>>))>>

Reverse(seq) == [i \in 1..Len(seq) |-> seq[Len(seq) + 1 - i]]

\* the file sets of at most MaxContextFiles files, in scan order or reversed
ContextFileLists ==
  LET picks == {S \in SUBSET (1..Len(ContextUniverse)) : Cardinality(S) <= MaxContextFiles}
      InOrder(S) == [k \in 1..Cardinality(S) |-> ContextUniverse[Ascending(S)[k]]]
  IN {InOrder(S) : S \in picks} \cup {Reverse(InOrder(S)) : S \in picks}

\* static findings handed to the deep-dive builder
ContextStaticFindings ==
  {<<>>,
   <<SliceFinding(PathAuthTs, Num(1))>>,
   <<SliceFinding(PathViteConfig, Num(5)), SliceFinding(PathAuthTs, Num(2))>>,
   <<SliceFinding(PathViteConfig, Num(-31))>>,
   <<SliceFinding(PathTsconfig, Num(1))>>}

\* findings of the architecture pass handed to the deep-dive builder
ContextArchitectureFindings ==
  {<<>>, <<SliceFinding(PathSchema, Num(1)), SliceFinding(<<<<"unknown">>>>, Undef)>>}

BuilderInput(passType, files, findings, architectureFindings) ==
  [pass |-> passType, files |-> files, staticFindings |-> findings,
   architectureFindings |-> architectureFindings]

BuilderInputs ==
  {BuilderInput(passType, files, <<>>, <<>>) :
     passType \in {"architecture", "security"}, files \in ContextFileLists}
  \cup {BuilderInput("deep-dive", files, findings, architectureFindings) :
          files \in ContextFileLists, findings \in ContextStaticFindings,
          architectureFindings \in ContextArchitectureFindings}

InitContext ==
  /\ envKey = TRUE
  /\ InitCalls
  /\ fn = "buildContext"
  /\ input \in BuilderInputs
  /\ output = None

\* the builder is entered: locals are initialised, the candidate lists are
\* those the loops will run over
EnterBuilder ==
  /\ fn = "buildContext"
  /\ output = None
  /\ LET graph == calculatePriorities(buildGraph(input.files))
     IN output' = [none |-> FALSE, done |-> FALSE,
                   todo |-> BuilderCandidates(input.pass, input.files, graph,
                                              input.staticFindings,
                                              input.architectureFindings),
                   locals |-> BuilderLocals(<<>>, InitialTokens(input.pass, input.files),
                                            FALSE),
                   before |-> <<>>, last |-> <<>>]
  /\ UNCHANGED <<envKey, staticFindings, pc, actx, passIdx, ddArgs, reviewContext,
                 pending, allPassResults, allFindings, result, exchanges, log, fn, input>>

\* one iteration of the current loop; last is the candidate of the iteration,
\* before the files picked before it
LoopIteration ==
  /\ fn = "buildContext"
  /\ output # None
  /\ ~output.done
  /\ output.todo # <<>>
  /\ output' = [output EXCEPT
                  !.todo = Tail(@),
                  !.locals = BuilderStep(@, Head(output.todo), TOKEN_BUDGETS(input.pass)),
                  !.before = output.locals.files,
                  !.last = <<Head(output.todo)>>]
  /\ UNCHANGED <<envKey, staticFindings, pc, actx, passIdx, ddArgs, reviewContext,
                 pending, allPassResults, allFindings, result, exchanges, log, fn, input>>

\* the builder returns its ReviewContext
ReturnContext ==
  /\ fn = "buildContext"
  /\ output # None
  /\ ~output.done
  /\ output.todo = <<>>
  /\ output' = [output EXCEPT !.done = TRUE, !.before = output.locals.files]
  /\ UNCHANGED <<envKey, staticFindings, pc, actx, passIdx, ddArgs, reviewContext,
                 pending, allPassResults, allFindings, result, exchanges, log, fn, input>>

NextContext == EnterBuilder \/ LoopIteration \/ ReturnContext

SpecContext == InitContext /\ [][NextContext]_vars

BuildingHere == fn = "buildContext" /\ output # None

\* token estimate of the content of an admitted file: the full text, or the
\* joined slice contents
AdmittedTokens(contextFile) == estimateTokens(ContentOrSlicesLength(contextFile))

RECURSIVE SumAdmitted(_)
SumAdmitted(files) ==
  IF files = <<>> THEN 0 ELSE AdmittedTokens(Head(files)) + SumAdmitted(Tail(files))

\* C11: after every admission of a pass, the token estimates of the admitted
\* files' contents (full text, or joined slices), plus the file-tree tokens in
\* the architecture pass, sum to at most the budget of the pass (15,000,
\* 40,000, 25,000); the files picked before a step are still there after it.
C11_BudgetRespected ==
  (BuildingHere /\ InitialTokens(input.pass, input.files) <= TOKEN_BUDGETS(input.pass)) =>
    /\ SumAdmitted(output.locals.files) + InitialTokens(input.pass, input.files)
         <= TOKEN_BUDGETS(input.pass)
    /\ IsPrefix(output.before, output.locals.files)

\* C12: no path appears twice in the ContextFile list of a pass.
C12_NoPathTwice ==
  BuildingHere =>
    \A i, j \in 1..Len(output.locals.files) :
      output.locals.files[i].path = output.locals.files[j].path => i = j

\* the lines startLine..endLine of a text (none when the range is empty)
LinesOfRange(lines, startLine, endLine) ==
  IF 1 <= startLine /\ startLine <= endLine /\ endLine <= Len(lines)
  THEN SubSeq(lines, startLine, endLine)
  ELSE IF startLine <= endLine
       THEN SubSeq(lines, Max(1, startLine), Min(Len(lines), endLine))
  ELSE <<>>

\* C20: every slice of a sliced ContextFile holds exactly the lines
\* startLine..endLine of the original text, untruncated, also when it was
\* formed by merging candidates.
C20_SliceContentFromOriginal ==
  BuildingHere =>
    \A i \in 1..Len(output.locals.files) :
      LET contextFile == output.locals.files[i]
          original == FindFile(input.files, contextFile.path).file.content.lines
      IN contextFile.sliced =>
           \A k \in 1..Len(contextFile.slices) :
             contextFile.slices[k].content =
               Content(LinesOfRange(original, contextFile.slices[k].startLine,
                                    contextFile.slices[k].endLine), FALSE)

\* the last iteration admitted a file
AdmittedHere ==
  /\ BuildingHere
  /\ output.last # <<>>
  /\ Len(output.locals.files) = Len(output.before) + 1

\* the last iteration belongs to the fill loop of the deep-dive builder
InFillStep == input.pass = "deep-dive" /\ output.last # <<>> /\ output.last[1].rule = "break"

\* C21: an admission of the fill step of the deep-dive pass never takes the
\* tokens used by the pass above 90% of the budget (36,000 of 40,000).
C21_ReserveNeverSpent ==
  (AdmittedHere /\ InFillStep) =>
    /\ output.locals.usedTokens * 10 <= TOKEN_BUDGETS("deep-dive") * 9
    /\ SumAdmitted(output.locals.files) * 10 <= TOKEN_BUDGETS("deep-dive") * 9

\* the reason a ContextFile was given by the loop that admitted it
LoopReason(contextFile) ==
  IF contextFile.sliced THEN contextFile.reason[1] ELSE contextFile.reason

\* the tier of the deep-dive pass that admitted the file
TierOf(contextFile) ==
  CASE LoopReason(contextFile) = "Static analysis flagged" -> 1
    [] LoopReason(contextFile) = "Flagged in architecture review" -> 2
    [] LoopReason(contextFile) = "High connectivity" -> 3
    [] LoopReason(contextFile) = "Priority score" -> 4

HasStaticFinding(path) ==
  \E i \in 1..Len(input.staticFindings) : input.staticFindings[i].file = Str(path)

ReferencedByArchitecture(path) ==
  \E i \in 1..Len(input.architectureFindings) :
    input.architectureFindings[i].file = Str(path)

\* the node of the path in the graph of the files in input
NodeOfPath(path) ==
  LET nodes == calculatePriorities(buildGraph(input.files)).files
  IN nodes[CHOOSE n \in 1..Len(nodes) : nodes[n].path = path]

C24_HighConnectivityReached ==
  /\ BuildingHere
  /\ input.pass = "deep-dive"
  /\ \E i, j \in 1..Len(output.locals.files) :
       i < j /\ TierOf(output.locals.files[i]) = 3 /\ TierOf(output.locals.files[j]) = 4

\* C25: every admitted ContextFile carries something to review: either a
\* non-empty full text and no slice, or no full text and at least one slice
\* with text; a file whose slicing yields no slice is not admitted.
C25_SomethingToReview ==
  BuildingHere =>
    \A i \in 1..Len(output.locals.files) :
      LET contextFile == output.locals.files[i]
      IN IF contextFile.sliced
         THEN /\ Len(contextFile.slices) >= 1
              /\ JoinedSliceLength(contextFile.slices) > 0
              /\ contextFile.content = <<>>
         ELSE /\ JoinedLength(contextFile.content) > 0
              /\ contextFile.slices = <<>>

\* C26: the totalTokenEstimate a builder returns (its usedTokens) equals the
\* sum of the token estimates of the content of every admitted file, full
\* text or joined slices, plus the file-tree tokens in the architecture pass.
C26_TotalCountsEveryFile ==
  (BuildingHere /\ output.done) =>
    output.locals.usedTokens =
      SumAdmitted(output.locals.files) + InitialTokens(input.pass, input.files)

\* ------------------------------------------------------------------------
\* buildContextFile applied to bounded files and budgets
\* ------------------------------------------------------------------------

\* 25 lines of 2051 characters: 51,299 characters, 12,825 tokens; lines 1..20
\* are 41,039 characters, 10,260 tokens
TwentyFiveLongLines == [i \in 1..25 |-> WideLine(2051)]

PathBundle == <<<<"src">>, <<"bundle", ".ts">>>>

ContextFileInputs ==
  {FileInfo(PathBundle, ".ts", 51299, TextOf(TwentyFiveLongLines, <<>>)),
   FileInfo(PathViteConfig, ".ts", 60000, TextOf(SecretThenLongLines, <<>>)),
   FileInfo(PathTsconfig, ".json", 48015, TextOf(SixteenLongLines, <<>>)),
   FileInfo(PathAuthTs, ".ts", 19, TextOf(<<SecretLine, PlainLine>>, <<>>)),
   FileInfo(PathReadme, ".md", 0, TextOf(<<BlankLine>>, <<>>))}

RemainingBudgets == {0, 1, 5, 3000, 3756, 10260, 12004, 12005, 12825, 12826, 40000}

ContextFileArgs ==
  {[file |-> file, reason |-> "Priority score", remainingBudget |-> remaining,
    findings |-> findings] :
     file \in ContextFileInputs, remaining \in RemainingBudgets,
     findings \in {<<>>, <<SliceFinding(PathBundle, Num(10))>>,
                   <<SliceFinding(PathViteConfig, Num(30)), SliceFinding(PathTsconfig, Num(2))>>}}

InitContextFile ==
  /\ envKey = TRUE
  /\ InitCalls
  /\ fn = "buildContextFile"
  /\ input \in ContextFileArgs
  /\ output = None

ApplyContextFile ==
  /\ fn = "buildContextFile"
  /\ output = None
  /\ output' = Returned(buildContextFile(input.file, input.reason, input.remainingBudget,
                                         input.findings))
  /\ UNCHANGED <<envKey, staticFindings, pc, actx, passIdx, ddArgs, reviewContext,
                 pending, allPassResults, allFindings, result, exchanges, log, fn, input>>

NextContextFile == ApplyContextFile

SpecContextFile == InitContextFile /\ [][NextContextFile]_vars

ContextFileHere == fn = "buildContextFile" /\ output # None

\* token estimates of the full text and of the slices of the file in input
FullTokens == estimateTokens(JoinedLength(input.file.content.lines))

SliceTokens ==
  LET lines == input.file.content.lines
      slices == extractSlices(lines, input.file.relativePath,
                              [staticFindings |-> input.findings, includeExports |-> TRUE,
                               includeSecurity |-> TRUE, includeDefinitions |-> TRUE,
                               maxTotalSize |-> Min(input.remainingBudget * 4, 20000)])
  IN estimateTokens(JoinedSliceLength(reconstructSliceContent(lines, slices)))

\* the first rule of buildContextFile does not apply to the file in input
NotFullByFirstRule ==
  /\ ~NoText(input.file.content)
  /\ ~(input.file.size < 50 * 1024 /\ FullTokens < input.remainingBudget)

\* C22: for a file the first rule does not include, when the slice tokens are
\* at least 80% of the full-text tokens (exactly 80% included) and the full
\* text fits the remaining budget, the file is included as full text;
\* otherwise, when the slices fit, it is included sliced, its reason suffixed
\* '(sliced)'.
C22_PrefersFullAtEightyPercent ==
  (ContextFileHere /\ NotFullByFirstRule) =>
    IF SliceTokens * 10 >= FullTokens * 8 /\ FullTokens < input.remainingBudget
    THEN /\ ~output.value.none
         /\ ~output.value.sliced
         /\ output.value.content = input.file.content.lines
         /\ output.value.reason = input.reason
    ELSE SliceTokens <= input.remainingBudget =>
           /\ ~output.value.none
           /\ output.value.sliced
           /\ output.value.reason = <<input.reason, " (sliced)">>

====
